---- MODULE Spec2Model ----
(***************************************************************************)
(* Beam rebar detailing (NSR-10) and drawing payload geometry.             *)
(*                                                                         *)
(* Lengths are integers in units of 1e-5 m (1 m = 100000, 1 cm = 1000,     *)
(* the tolerance 1e-3 m = 100).  The code's 1e-6 m guard is below one      *)
(* unit, so "x < y - 1e-6" is "x < y" and "x >= y - 1e-6" is "x >= y" on   *)
(* this grid.  Products with decimal ratios are taken with integer         *)
(* division (floor), exact for every length that is a multiple of 1 mm.    *)
(* Comparisons are exact: where two lengths are equal the code's binary    *)
(* floats may fall on either side, so the input domains below keep to      *)
(* geometries on which the code's comparisons are not ties.                *)
(***************************************************************************)
EXTENDS Integers, Sequences, FiniteSets, TLC

VARIABLES
    input,              \* request data of compute_detailing
    pc,                 \* position inside compute_detailing
    beam_data,          \* _preprocess_data result
    coordinates,        \* _calculate_coordinates result
    continuous_bars,    \* _identify_continuous_bars result
    prohibited_zones,   \* _calculate_prohibited_zones result
    top_bars,           \* list of RebarDetail (top face)
    bottom_bars,        \* list of RebarDetail (bottom face)
    joints,             \* splice dicts; a bar's splices are indexes into it
    warnings,           \* _validate_nsr10 result
    payload,            \* BeamGeometry of build_beam_drawing_payload
    stirrups,           \* stirrup zoning: arguments and derived segments
    lanes,              \* rebar drawer: bars, prepared segments, lane of each
    document,           \* render_document: payload, entities, outcome
    served,             \* responses the shared service instance has returned
    loaders,            \* lru_cache of a loader and the threads calling it
    segmenting,         \* one call of a segmenting loop: arguments and locals
    iteration_count,    \* safety_counter of that call
    job,                \* export job: the row and the run of process_export_job
    cutting             \* one call of _optimize_cutting_stock: arguments and result

\* the state of compute_detailing and of the drawing payload
detailing_vars == <<input, pc, beam_data, coordinates, continuous_bars, prohibited_zones,
                    top_bars, bottom_bars, joints, warnings, payload>>

\* the state of the modules that compute_detailing never touches
module_vars == <<stirrups, lanes, document, served, loaders, segmenting, iteration_count, job, cutting>>

vars == <<detailing_vars, module_vars>>

-----------------------------------------------------------------------------
(* Bounds of the model                                                     *)

MaxSpans == 2
MaxQty == 3

(* Input domains (1e-5 m for lengths, cm for widths and heights) *)
SpanLengths == {200000, 281850, 300000, 400000}
SupportWidthsCm == {30}
SectionHeightsCm == {0}
CoverCm == {4}
MaxBarLengths == {"6m", "12m"}
HookTypes == {"135"}
EnergyClasses == {"DES"}
Diameters == {6, 9}
\* beam_total_length_m of the stored despiece: 0 (not given) or 10 m
StoredTotals == {0, 1000000}

-----------------------------------------------------------------------------
(* Arithmetic helpers                                                      *)

Max2(a, b) == IF a >= b THEN a ELSE b
Min2(a, b) == IF a <= b THEN a ELSE b
Abs(a) == IF a >= 0 THEN a ELSE -a
\* x * num / den, floor
Ratio(x, num, den) == (x * num) \div den
\* math.ceil(a / b) for a >= 0, b > 0
CeilDiv(a, b) == (a + b - 1) \div b

RECURSIVE SumSeq(_)
SumSeq(s) == IF s = <<>> THEN 0 ELSE Head(s) + SumSeq(Tail(s))

None == [none |-> TRUE]

-----------------------------------------------------------------------------
(* Code tables of BeamDetailingService.__init__                            *)

tolerance == 100
min_edge_cover_m == 5000

\* hook_length_table; 0 stands for the None cells
hook_length_table(d, h) ==
    CASE d = 2  -> (CASE h = "90" -> 10000 [] h = "180" -> 8000  [] h = "135" -> 7500  [] OTHER -> 0)
      [] d = 3  -> (CASE h = "90" -> 15000 [] h = "180" -> 13000 [] h = "135" -> 9500  [] OTHER -> 0)
      [] d = 4  -> (CASE h = "90" -> 20000 [] h = "180" -> 15000 [] h = "135" -> 12700 [] OTHER -> 0)
      [] d = 5  -> (CASE h = "90" -> 25000 [] h = "180" -> 18000 [] h = "135" -> 15900 [] OTHER -> 0)
      [] d = 6  -> (CASE h = "90" -> 30000 [] h = "180" -> 21000 [] h = "135" -> 19100 [] OTHER -> 0)
      [] d = 7  -> (CASE h = "90" -> 36000 [] h = "180" -> 25000 [] h = "135" -> 22200 [] OTHER -> 0)
      [] d = 8  -> (CASE h = "90" -> 41000 [] h = "180" -> 30000 [] h = "135" -> 25400 [] OTHER -> 0)
      [] d = 9  -> (CASE h = "90" -> 49000 [] h = "180" -> 34000 [] OTHER -> 0)
      [] d = 10 -> (CASE h = "90" -> 54000 [] h = "180" -> 40000 [] OTHER -> 0)
      [] d = 11 -> (CASE h = "90" -> 59000 [] h = "180" -> 43000 [] OTHER -> 0)
      [] d = 14 -> (CASE h = "90" -> 80000 [] h = "180" -> 44500 [] OTHER -> 0)
      [] d = 18 -> (CASE h = "90" -> 103000 [] h = "180" -> 57200 [] OTHER -> 0)
      [] OTHER -> 0

\* keys of rebar_weights: the marks _expand_bar_config accepts
rebar_weight_marks == {3, 4, 5, 6, 7, 8, 9, 10, 11, 14, 18}

\* base_development_lengths (m -> units)
base_development_lengths(d) ==
    CASE d = 3 -> 30000 [] d = 4 -> 40000 [] d = 5 -> 50000 [] d = 6 -> 60000
      [] d = 7 -> 70000 [] d = 8 -> 80000 [] d = 9 -> 90000 [] d = 10 -> 100000
      [] d = 11 -> 110000 [] d = 14 -> 140000 [] d = 18 -> 180000
      [] OTHER -> 0

\* energy_factors, in tenths
energy_factors(e) == IF e = "DES" THEN 13 ELSE 10

-----------------------------------------------------------------------------
(* _preprocess_data and _expand_bar_config                                 *)

RECURSIVE Repeat(_, _)
Repeat(x, n) == IF n <= 0 THEN <<>> ELSE <<x>> \o Repeat(x, n - 1)

RECURSIVE ExpandBarConfig(_)
ExpandBarConfig(config) ==
    IF config = <<>> THEN <<>>
    ELSE LET group == Head(config)
             bars == IF group.quantity > 0 /\ group.diameter \in rebar_weight_marks
                     THEN Repeat(group.diameter, group.quantity)
                     ELSE <<>>
         IN bars \o ExpandBarConfig(Tail(config))

\* float(max_length_str.replace('m', '')), 12.0 on ValueError
ParseMaxLength(max_length_str) ==
    CASE max_length_str = "1m" -> 100000
      [] max_length_str = "6m" -> 600000
      [] max_length_str = "9m" -> 900000
      [] max_length_str = "12m" -> 1200000
      [] OTHER -> 1200000

\* _preprocess_data without the check of lines 298-301
PreprocessDataUnchecked(data) ==
    LET spans == data.span_geometries
        avg_height == IF spans = <<>> THEN 0
                      ELSE SumSeq([i \in 1..Len(spans) |-> spans[i].section_height_cm])
                               \div Len(spans)
        cover_cm == IF data.cover_cm = 0 THEN 5 ELSE data.cover_cm
    IN [ top_bars |-> ExpandBarConfig(data.top_bars_config),
         bottom_bars |-> ExpandBarConfig(data.bottom_bars_config),
         max_bar_length_m |-> ParseMaxLength(data.max_rebar_length_m),
         effective_depth_m |-> IF spans = <<>> THEN 45000
                               ELSE Max2(30000, (avg_height - 6) * 1000),
         edge_cover_m |-> Max2(min_edge_cover_m, cover_cm * 1000),
         hook_type |-> data.hook_type,
         energy_dissipation_class |-> data.energy_dissipation_class ]

PreprocessData(data) ==
    LET top == ExpandBarConfig(data.top_bars_config)
        bottom == ExpandBarConfig(data.bottom_bars_config)
        spans == data.span_geometries
        avg_height == IF spans = <<>> THEN 0
                      ELSE SumSeq([i \in 1..Len(spans) |-> spans[i].section_height_cm])
                               \div Len(spans)
        cover_cm == IF data.cover_cm = 0 THEN 5 ELSE data.cover_cm
    IN IF top = <<>> /\ bottom = <<>> THEN None
       ELSE [ top_bars |-> top,
              bottom_bars |-> bottom,
              max_bar_length_m |-> ParseMaxLength(data.max_rebar_length_m),
              effective_depth_m |-> IF spans = <<>> THEN 45000
                                    ELSE Max2(30000, (avg_height - 6) * 1000),
              edge_cover_m |-> Max2(min_edge_cover_m, cover_cm * 1000),
              hook_type |-> data.hook_type,
              energy_dissipation_class |-> data.energy_dissipation_class ]

-----------------------------------------------------------------------------
(* _calculate_coordinates                                                  *)

RECURSIVE CoordWalk(_, _, _, _, _)
CoordWalk(spans, supports, i, current_x, acc) ==
    IF i > Len(supports) THEN [acc EXCEPT !.total_length = current_x]
    ELSE LET support_width == supports[i].support_width_cm * 1000
             face == [x |-> current_x, support_index |-> i - 1, width |-> support_width]
             sup == IF support_width > 0
                    THEN <<[start |-> current_x, end |-> current_x + support_width,
                            index |-> i - 1]>>
                    ELSE <<>>
             x1 == current_x + support_width
             has_span == i <= Len(spans)
             span_length == IF has_span THEN spans[i].clear_span_between_supports_m ELSE 0
             center == IF has_span
                       THEN <<[x |-> x1 + span_length \div 2, span_index |-> i - 1,
                               length |-> span_length]>>
                       ELSE <<>>
             span == IF has_span
                     THEN <<[start |-> x1, end |-> x1 + span_length, index |-> i - 1,
                             length |-> span_length]>>
                     ELSE <<>>
         IN CoordWalk(spans, supports, i + 1, x1 + span_length,
                      [acc EXCEPT !.faces = @ \o <<face>>,
                                  !.supports = @ \o sup,
                                  !.centers = @ \o center,
                                  !.spans = @ \o span])

CalculateCoordinates(data) ==
    CoordWalk(data.span_geometries, data.axis_supports, 1, 0,
              [faces |-> <<>>, centers |-> <<>>, spans |-> <<>>, supports |-> <<>>,
               total_length |-> 0])

-----------------------------------------------------------------------------
(* _identify_continuous_bars                                               *)

Count(bars, d) == Cardinality({i \in 1..Len(bars) : bars[i] = d})

\* Counter(bars).keys(): the distinct marks in order of first appearance
RECURSIVE DistinctMarks(_, _)
DistinctMarks(bars, seen) ==
    IF bars = <<>> THEN <<>>
    ELSE IF Head(bars) \in seen THEN DistinctMarks(Tail(bars), seen)
    ELSE <<Head(bars)>> \o DistinctMarks(Tail(bars), seen \cup {Head(bars)})

\* sorted(keys, key=get_diameter_num, reverse=True): stable insertion, descending
RECURSIVE InsertDesc(_, _)
InsertDesc(sorted, d) ==
    IF sorted = <<>> THEN <<d>>
    ELSE IF Head(sorted) >= d THEN <<Head(sorted)>> \o InsertDesc(Tail(sorted), d)
    ELSE <<d>> \o sorted

\* the marks left in the order of their first appearance
FirstAppearanceOrder(marks, acc) == acc \o marks

RECURSIVE SortDesc(_, _)
SortDesc(marks, acc) ==
    IF marks = <<>> THEN acc ELSE SortDesc(Tail(marks), InsertDesc(acc, Head(marks)))

SideContinuous(bars) ==
    LET sorted == SortDesc(DistinctMarks(bars, {}), <<>>)
        diameters == SubSeq(sorted, 1, Min2(2, Len(sorted)))
        chosen == {diameters[i] : i \in 1..Len(diameters)}
        count_per_diameter ==
            [d \in chosen |->
                LET available == Count(bars, d)
                IN IF available >= 2 THEN Min2(2, available) ELSE Min2(1, available)]
    IN [ diameters |-> diameters,
         count_per_diameter |-> count_per_diameter,
         total_continuous |->
             SumSeq([i \in 1..Len(diameters) |-> count_per_diameter[diameters[i]]]) ]

IdentifyContinuousBars(data) ==
    [top |-> SideContinuous(data.top_bars), bottom |-> SideContinuous(data.bottom_bars)]

\* count_per_diameter.get(diameter, 0)
ContinuousCount(side, d) ==
    IF d \in DOMAIN side.count_per_diameter THEN side.count_per_diameter[d] ELSE 0

-----------------------------------------------------------------------------
(* _calculate_prohibited_zones                                             *)

\* zones.sort(key=start_m): stable insertion, ascending
RECURSIVE InsertZone(_, _)
InsertZone(sorted, z) ==
    IF sorted = <<>> THEN <<z>>
    ELSE IF Head(sorted).start_m <= z.start_m
         THEN <<Head(sorted)>> \o InsertZone(Tail(sorted), z)
    ELSE <<z>> \o sorted

RECURSIVE SortZones(_, _)
SortZones(zones, acc) ==
    IF zones = <<>> THEN acc ELSE SortZones(Tail(zones), InsertZone(acc, Head(zones)))

\* first span whose start (resp. end) lies within 0.01 m of x; 0 when none
FirstSpanStartingAt(spans, x) ==
    LET hits == {i \in 1..Len(spans) : Abs(spans[i].start - x) < 1000}
    IN IF hits = {} THEN 0 ELSE CHOOSE i \in hits : \A j \in hits : i <= j

FirstSpanEndingAt(spans, x) ==
    LET hits == {i \in 1..Len(spans) : Abs(spans[i].end - x) < 1000}
    IN IF hits = {} THEN 0 ELSE CHOOSE i \in hits : \A j \in hits : i <= j

FaceZones(face, coords, d) ==
    LET spans == coords.spans
        total_supports == Len(coords.faces)
        support_start == face.x
        support_end == support_start + face.width
        prohibited_distance == Max2(2 * d, face.width \div 2)
        is_first == face.support_index = 0
        is_last == face.support_index = total_supports - 1
        inside == IF support_end - support_start > 0
                  THEN <<[start_m |-> support_start, end_m |-> support_end,
                          kind |-> "inside_support",
                          support_index |-> face.support_index]>>
                  ELSE <<>>
        si == FirstSpanStartingAt(spans, support_end)
        right_limit == IF si = 0 THEN coords.total_length
                       ELSE Min2(coords.total_length,
                                 spans[si].start + spans[si].length \div 2)
        after_end == Min2(support_end + prohibited_distance, right_limit)
        after == IF ~is_last /\ after_end > support_end
                 THEN <<[start_m |-> support_end, end_m |-> after_end,
                         kind |-> "after_face",
                         support_index |-> face.support_index]>>
                 ELSE <<>>
        ei == FirstSpanEndingAt(spans, support_start)
        left_limit == IF ei = 0 THEN 0
                      ELSE Max2(0, spans[ei].end - spans[ei].length \div 2)
        before_start == Max2(support_start - prohibited_distance, left_limit)
        before == IF ~is_first /\ before_start < support_start
                  THEN <<[start_m |-> before_start, end_m |-> support_start,
                          kind |-> "before_face",
                          support_index |-> face.support_index]>>
                  ELSE <<>>
    IN inside \o after \o before

RECURSIVE AllFaceZones(_, _, _)
AllFaceZones(faces, coords, d) ==
    IF faces = <<>> THEN <<>>
    ELSE FaceZones(Head(faces), coords, d) \o AllFaceZones(Tail(faces), coords, d)

CalculateProhibitedZones(coords, data) ==
    SortZones(AllFaceZones(coords.faces, coords, data.effective_depth_m), <<>>)

-----------------------------------------------------------------------------
(* _calculate_development_lengths (21 MPa, Grado 60: fc and fy factors 1.0; *)
(* no lap_splice_lookup in the request, so splice = development * energy)   *)

DevelopmentLength(data, d) == base_development_lengths(d)

SpliceLength(data, d) ==
    (base_development_lengths(d) * energy_factors(data.energy_dissipation_class)) \div 10

\* the 90 degree allowance whatever the hook type
GetSingleHookLength90(d, hook_type) == hook_length_table(d, "90")

\* _get_single_hook_length
GetSingleHookLength(d, hook_type) == hook_length_table(d, hook_type)

-----------------------------------------------------------------------------
(* Zone predicates and searches                                            *)

\* _overlaps_prohibited_zone
OverlapsProhibitedZone(start, end, zones) ==
    \E i \in 1..Len(zones) :
        Max2(start, zones[i].start_m) < Min2(end, zones[i].end_m)

\* _find_overlapping_zone: index of the first overlapping zone, 0 for None
FindOverlappingZone(start, end, zones) ==
    LET hits == {i \in 1..Len(zones) :
                    Max2(start, zones[i].start_m) < Min2(end, zones[i].end_m)}
    IN IF hits = {} THEN 0 ELSE CHOOSE i \in hits : \A j \in hits : i <= j

\* _is_in_prohibited_zone
IsInProhibitedZone(position, zones, splice_length) ==
    LET splice_start == position - splice_length \div 2
        splice_end == position + splice_length \div 2
    IN \E i \in 1..Len(zones) :
        \/ zones[i].start_m <= position /\ position <= zones[i].end_m
        \/ splice_start < zones[i].end_m /\ splice_end > zones[i].start_m

\* _find_zone_end_before: end of the last zone of the leading run of zones that
\* end before position - tolerance; -1 for None
RECURSIVE ZoneEndBeforeWalk(_, _, _, _)
ZoneEndBeforeWalk(position, zones, i, previous_end) ==
    IF i > Len(zones) THEN previous_end
    ELSE IF zones[i].end_m < position - tolerance
         THEN ZoneEndBeforeWalk(position, zones, i + 1, zones[i].end_m)
    ELSE previous_end

FindZoneEndBefore(position, zones) == ZoneEndBeforeWalk(position, zones, 1, -1)

\* _find_next_before_zone: index of the first "antes de" zone starting at or
\* after position + tolerance; 0 for None
FindNextBeforeZone(position, zones) ==
    LET hits == {i \in 1..Len(zones) :
                    /\ zones[i].start_m >= position + tolerance
                    /\ zones[i].kind = "before_face"}
    IN IF hits = {} THEN 0 ELSE CHOOSE i \in hits : \A j \in hits : i <= j

\* the while loop of _adjust_segment_end_for_splice_zones: the end it returns
\* and the attempts it made
RECURSIVE AdjustWalk(_, _, _, _, _, _)
AdjustWalk(current_start, candidate_end, splice_length, zones, adjusted_end, attempts) ==
    IF attempts >= 20 THEN [end |-> adjusted_end, attempts |-> attempts]
    ELSE LET js0 == adjusted_end - splice_length
             joint_start == IF js0 < current_start + tolerance
                            THEN current_start + tolerance ELSE js0
             zi == FindOverlappingZone(joint_start, adjusted_end, zones)
         IN IF ~OverlapsProhibitedZone(joint_start, adjusted_end, zones)
            THEN [end |-> adjusted_end, attempts |-> attempts + 1]
            ELSE IF zi = 0 THEN [end |-> adjusted_end, attempts |-> attempts + 1]
            ELSE LET shifted_end == zones[zi].start_m - tolerance
                 IN IF shifted_end - splice_length <= current_start + tolerance
                    THEN [end |-> candidate_end, attempts |-> attempts + 1]
                    ELSE AdjustWalk(current_start, candidate_end, splice_length, zones,
                                    shifted_end, attempts + 1)

\* _adjust_segment_end_for_splice_zones
AdjustSegmentEndForSpliceZones(current_start, candidate_end, splice_length, zones) ==
    AdjustWalk(current_start, candidate_end, splice_length, zones, candidate_end, 0).end

\* _prefer_splice_in_previous_corridor
PreferSpliceInPreviousCorridor(current_start, joint_start, candidate_end, splice_length, zones) ==
    LET bz == FindNextBeforeZone(joint_start, zones)
    IN IF splice_length <= 0 \/ bz = 0 THEN candidate_end
       ELSE LET prev_end == FindZoneEndBefore(zones[bz].start_m, zones)
                corridor_end == zones[bz].start_m - tolerance
                target_end == Min2(prev_end + splice_length, corridor_end)
            IN IF prev_end = -1 \/ prev_end < current_start + tolerance THEN candidate_end
               ELSE IF corridor_end - prev_end < splice_length - tolerance THEN candidate_end
               ELSE IF target_end <= current_start + tolerance THEN candidate_end
               ELSE target_end

\* _target_bottom_corridor_end; -1 for None
TargetBottomCorridorEnd(current_start, candidate_end, splice_length, zones) ==
    LET bz == FindNextBeforeZone(current_start, zones)
    IN IF bz = 0 THEN -1
       ELSE LET prev_end == FindZoneEndBefore(zones[bz].start_m, zones)
                corridor_end == zones[bz].start_m - tolerance
                target == Min2(Min2(prev_end + splice_length, corridor_end), candidate_end)
            IN IF prev_end = -1 THEN -1
               ELSE IF target - current_start < splice_length - tolerance THEN -1
               ELSE target

\* _find_safe_splice_position: candidates start_range + k * 0.05 m (the 0.1 m
\* grid and its midpoints, sorted), the first whose window meets no zone;
\* -1 for None
FindSafeSplicePosition(start_range, end_range, splice_length, zones) ==
    LET steps == (end_range + tolerance - start_range) \div 10000
        safe == {k \in 0..(2 * steps) :
                    ~OverlapsProhibitedZone(start_range + k * 5000 - splice_length \div 2,
                                            start_range + k * 5000 + splice_length \div 2,
                                            zones)}
    IN IF splice_length <= 0 \/ end_range - start_range <= tolerance \/ safe = {} THEN -1
       ELSE start_range + 5000 * (CHOOSE k \in safe : \A other \in safe : k <= other)

-----------------------------------------------------------------------------
(* Splice plans of an unsplit continuous bar                               *)

NewSplice(start, end) ==
    [start |-> start, end |-> end, length |-> end - start,
     adjusted |-> FALSE, original_center |-> 0]

\* window of a planned splice around center, clipped to the beam; kept when it
\* keeps at least 80 % of the lap length
PlannedSplice(center, total_length, splice_length) ==
    LET splice_start == Max2(0, center - splice_length \div 2)
        splice_end == Min2(total_length, center + splice_length \div 2)
    IN IF 10 * (splice_end - splice_start) >= 8 * splice_length
       THEN <<NewSplice(splice_start, splice_end)>>
       ELSE <<>>

\* _calculate_splices; <<>> for None
RECURSIVE CalcSplicesWalk(_, _, _, _, _)
CalcSplicesWalk(total_length, num_pieces, zones, splice_length, i) ==
    IF i >= num_pieces THEN <<>>
    ELSE LET splice_center == Ratio(total_length, i, num_pieces)
             in_prohibited == \E z \in 1..Len(zones) :
                                 /\ zones[z].start_m <= splice_center
                                 /\ splice_center <= zones[z].end_m
             here == IF in_prohibited THEN <<>>
                     ELSE PlannedSplice(splice_center, total_length, splice_length)
         IN here \o CalcSplicesWalk(total_length, num_pieces, zones, splice_length, i + 1)

CalculateSplices(total_length, max_bar_length, zones, splice_length) ==
    IF total_length <= max_bar_length THEN <<>>
    ELSE LET num_pieces == CeilDiv(total_length, max_bar_length)
         IN IF num_pieces <= 1 THEN <<>>
            ELSE CalcSplicesWalk(total_length, num_pieces, zones, splice_length, 1)

\* _calculate_splices_with_offset; offset_pct is offset_factor * 100
RECURSIVE OffsetSplicesWalk(_, _, _, _, _, _)
OffsetSplicesWalk(total_length, num_pieces, zones, splice_length, offset_pct, i) ==
    IF i >= num_pieces THEN <<>>
    ELSE LET raw == Ratio(total_length, i * (100 + offset_pct), 100 * num_pieces)
             splice_center == Max2(splice_length \div 2,
                                   Min2(raw, total_length - splice_length \div 2))
             here == IF IsInProhibitedZone(splice_center, zones, splice_length) THEN <<>>
                     ELSE PlannedSplice(splice_center, total_length, splice_length)
         IN here \o OffsetSplicesWalk(total_length, num_pieces, zones, splice_length,
                                      offset_pct, i + 1)

CalculateSplicesWithOffset(total_length, max_bar_length, zones, splice_length, offset_pct) ==
    IF total_length <= max_bar_length \/ splice_length <= 0 THEN <<>>
    ELSE LET num_pieces == CeilDiv(total_length, max_bar_length)
             bounded == Max2(-50, Min2(offset_pct, 50))
         IN IF num_pieces <= 1 THEN <<>>
            ELSE OffsetSplicesWalk(total_length, num_pieces, zones, splice_length,
                                   bounded, 1)

\* possible_positions (percent of the total length) and pattern_map
possible_positions == <<25, 33, 40, 50, 60, 67, 75>>
pattern_map(group) ==
    CASE group = 0 -> <<2, 6>> [] group = 1 -> <<3, 5>> [] OTHER -> <<1, 4>>

RECURSIVE PatternSplices(_, _, _, _)
PatternSplices(indices, total_length, zones, splice_length) ==
    IF indices = <<>> THEN <<>>
    ELSE LET center == Ratio(total_length, possible_positions[Head(indices)], 100)
             here == IF IsInProhibitedZone(center, zones, splice_length) THEN <<>>
                     ELSE PlannedSplice(center, total_length, splice_length)
         IN here \o PatternSplices(Tail(indices), total_length, zones, splice_length)

\* _build_bottom_splice_plan; <<>> for None
BuildBottomSplicePlan(total_length, splice_length, zones, max_bar_length, bar_index) ==
    IF splice_length <= 0 THEN <<>>
    ELSE LET group == bar_index % 3
             splices == PatternSplices(pattern_map(group), total_length, zones, splice_length)
         IN IF splices # <<>> THEN splices
            ELSE CalculateSplicesWithOffset(total_length, max_bar_length, zones,
                                            splice_length, 8 + 4 * group)

-----------------------------------------------------------------------------
(* RebarDetail and the segmentation of a continuous bar                    *)
(* A bar's id is <<face, mark, series, number, piece>>; piece 0 is the     *)
(* unsplit bar.  splices holds indexes into a list of splice dicts, so     *)
(* that two segments can hold the same dict, as in the code.               *)

RebarDetail(id, diameter, position, type, start, end, hook_type, splices, dev) ==
    [id |-> id, diameter |-> diameter, position |-> position, type |-> type,
     length_m |-> end - start, start_m |-> start, end_m |-> end,
     hook_type |-> hook_type, splices |-> splices, quantity |-> 1,
     development_length_m |-> dev, coordinated |-> FALSE]

\* segment.splices: the incoming joint (idx - 1) then the outgoing joint (idx)
RECURSIVE AttachJoints(_, _, _)
AttachJoints(segments, njoints, idx) ==
    IF idx > Len(segments) THEN <<>>
    ELSE LET incoming == IF idx > 1 THEN <<idx - 1>> ELSE <<>>
             outgoing == IF idx <= njoints THEN <<idx>> ELSE <<>>
         IN <<[segments[idx] EXCEPT !.splices = incoming \o outgoing]>>
            \o AttachJoints(segments, njoints, idx + 1)

SegmentId(bar, piece_index) == <<bar.id[1], bar.id[2], bar.id[3], bar.id[4], piece_index>>

\* hook deductions of one piece and the resulting usable stock length
UsableMax(c, piece_index, remaining_length) ==
    LET d1 == IF c.has_start_hook /\ piece_index = 1 THEN c.hook_length ELSE 0
        d2 == IF c.has_end_hook /\ remaining_length <= c.max_length + tolerance
              THEN c.hook_length ELSE 0
        usable == c.max_length - (d1 + d2)
    IN IF usable <= 0 THEN c.max_length ELSE usable

\* one piece of a split bar, without its joints yet
Segment(bar, piece_index, start, end) ==
    RebarDetail(SegmentId(bar, piece_index), bar.diameter, bar.position, bar.type,
                start, end, bar.hook_type, <<>>, bar.development_length_m)

\* candidate_end of _split_top_bar_strategy before the corridor preference
TopCandidateEnd(c, current_start, piece_index) ==
    LET remaining_length == Max2(c.bar.end_m - current_start, 0)
        usable_max == UsableMax(c, piece_index, remaining_length)
    IN current_start +
           (IF piece_index = 1 /\ 10 * remaining_length > 18 * c.max_length
            THEN Min2(Ratio(usable_max, 6, 10), remaining_length)
            ELSE Min2(usable_max, remaining_length))

\* candidate_end after the preference for the previous corridor
TopPreferredEnd(c, current_start, candidate_end, joint_start_candidate) ==
    LET preferred_end ==
            PreferSpliceInPreviousCorridor(current_start, joint_start_candidate,
                                           candidate_end, c.splice_length, c.zones)
    IN IF /\ c.prefer_previous_zone
          /\ ~(candidate_end >= c.bar.end_m - tolerance)
          /\ c.splice_length > 0
          /\ c.bar.end_m - joint_start_candidate <= c.max_length + tolerance
          /\ preferred_end < candidate_end - tolerance
       THEN preferred_end
       ELSE candidate_end

\* segment_end of _split_top_bar_strategy
TopSegmentEnd(c, current_start, candidate_end) ==
    IF candidate_end >= c.bar.end_m - tolerance THEN c.bar.end_m
    ELSE AdjustSegmentEndForSpliceZones(current_start, candidate_end,
                                        c.splice_length, c.zones)

\* loop of _split_top_bar_strategy
\* the loop goes on without its limit of 100 iterations
LoopContinuesUnlimited(c, current_start, safety_counter) ==
    current_start < c.bar.end_m

\* while current_start < bar.end_m - 1e-6 and safety_counter < 100
LoopContinues(c, current_start, safety_counter) ==
    current_start < c.bar.end_m /\ safety_counter < 100

RECURSIVE TopLoop(_, _, _, _, _, _)

\* the end of one iteration: the segment is kept and the loop goes on from
\* the joint, or stops
TopLoopStep(c, current_start, piece_index, safety_counter, segments, jts, segment_end) ==
    IF c.bar.end_m - current_start <= 0 \/ segment_end - current_start <= 0
    THEN [segments |-> segments, joints |-> jts,
          iterations |-> safety_counter + 1]
    ELSE IF segment_end >= c.bar.end_m
    THEN [segments |-> Append(segments, Segment(c.bar, piece_index, current_start,
                                                segment_end)),
          joints |-> jts, iterations |-> safety_counter + 1]
    ELSE TopLoop(c, Max2(c.bar.start_m, segment_end - c.splice_length),
                 piece_index + 1, safety_counter + 1,
                 Append(segments, Segment(c.bar, piece_index, current_start, segment_end)),
                 Append(jts, NewSplice(Max2(c.bar.start_m, segment_end - c.splice_length),
                                       segment_end)))

TopCandidateStep(c, current_start, piece_index, safety_counter, segments, jts, candidate_end) ==
    TopLoopStep(c, current_start, piece_index, safety_counter, segments, jts,
        TopSegmentEnd(c, current_start,
            TopPreferredEnd(c, current_start, candidate_end,
                            Max2(c.bar.start_m, candidate_end - c.splice_length))))

TopLoop(c, current_start, piece_index, safety_counter, segments, jts) ==
    IF ~LoopContinues(c, current_start, safety_counter)
    THEN [segments |-> segments, joints |-> jts, iterations |-> safety_counter]
    ELSE TopCandidateStep(c, current_start, piece_index, safety_counter, segments, jts,
                          TopCandidateEnd(c, current_start, piece_index))

\* first_segment_target of _split_bottom_bar_strategy; the ratio is in percent
FirstSegmentTarget(total_length, max_length, splice_length, offset_pct) ==
    LET offset_ratio == Max2(0, Min2(offset_pct, 60))
        t0 == IF offset_ratio * 1000 > 100   \* offset_ratio > tolerance
              THEN Min2(Ratio(total_length, 80 + offset_ratio, 200), max_length)
              ELSE Min2(Ratio(total_length, 45, 100), Ratio(max_length, 8, 10))
        t1 == Max2(t0, Ratio(splice_length, 3, 2))
    IN Min2(t1, total_length)

\* candidate_end of _split_bottom_bar_strategy before any adjustment
BottomCandidateEnd(c, current_start, piece_index) ==
    LET remaining_length == Max2(c.bar.end_m - current_start, 0)
        segment_length == Min2(UsableMax(c, piece_index, remaining_length),
                               remaining_length)
    IN Min2(current_start + (IF piece_index = 1
                             THEN Min2(segment_length, c.first_segment_target)
                             ELSE segment_length),
            c.bar.end_m)

\* candidate_end, is_last_segment and needs_zone_adjustment of one iteration
Candidate(end, is_last_segment, needs_zone_adjustment) ==
    [end |-> end, is_last_segment |-> is_last_segment,
     needs_zone_adjustment |-> needs_zone_adjustment]

\* the first joint goes to the corridor before the next "antes de" zone;
\* corridor_target is -1 for None
BottomCorridorEnd(c, candidate_end, corridor_target) ==
    IF corridor_target # -1
    THEN Candidate(Min2(c.bar.end_m, corridor_target),
                   Min2(c.bar.end_m, corridor_target) >= c.bar.end_m - tolerance,
                   FALSE)
    ELSE Candidate(candidate_end, candidate_end >= c.bar.end_m - tolerance, TRUE)

BottomCorridorTarget(c, current_start, piece_index, candidate_end) ==
    IF piece_index = 1 /\ ~(candidate_end >= c.bar.end_m - tolerance)
    THEN TargetBottomCorridorEnd(current_start, candidate_end, c.splice_length, c.zones)
    ELSE -1

\* the first joint leaves a prohibited zone when a safe position exists;
\* safe_center is -1 for None
BottomSafeEnd(c, cand, first_check, overlaps, safe_center) ==
    Candidate(IF safe_center # -1 THEN Min2(c.bar.end_m, safe_center) ELSE cand.end,
              cand.is_last_segment,
              IF first_check THEN overlaps /\ safe_center = -1
              ELSE cand.needs_zone_adjustment)

BottomSafeCenter(c, current_start, cand, first_check, overlaps) ==
    IF first_check /\ overlaps
    THEN FindSafeSplicePosition(current_start + c.splice_length, cand.end,
                                c.splice_length, c.zones)
    ELSE -1

BottomSafeStep(c, current_start, cand, first_check, overlaps) ==
    BottomSafeEnd(c, cand, first_check, overlaps,
                  BottomSafeCenter(c, current_start, cand, first_check, overlaps))

\* segment_end after the general adjustment to the zones
BottomAdjustedEnd(c, candidate_end) ==
    IF candidate_end >= c.bar.end_m - tolerance THEN c.bar.end_m ELSE candidate_end

BottomSegmentEnd(c, current_start, cand) ==
    IF cand.is_last_segment THEN c.bar.end_m
    ELSE IF cand.needs_zone_adjustment
    THEN BottomAdjustedEnd(c, AdjustSegmentEndForSpliceZones(current_start, cand.end,
                                                             c.splice_length, c.zones))
    ELSE cand.end

\* loop of _split_bottom_bar_strategy
RECURSIVE BottomLoop(_, _, _, _, _, _)

\* the end of one iteration: the segment is kept and the loop goes on from
\* the joint, or stops
BottomLoopStep(c, current_start, piece_index, safety_counter, segments, jts, segment_end) ==
    IF c.bar.end_m - current_start <= 0 \/ segment_end - current_start <= 0
    THEN [segments |-> segments, joints |-> jts,
          iterations |-> safety_counter + 1]
    ELSE IF segment_end >= c.bar.end_m
    THEN [segments |-> Append(segments, Segment(c.bar, piece_index, current_start,
                                                segment_end)),
          joints |-> jts, iterations |-> safety_counter + 1]
    ELSE BottomLoop(c, Max2(c.bar.start_m, segment_end - c.splice_length),
                    piece_index + 1, safety_counter + 1,
                    Append(segments, Segment(c.bar, piece_index, current_start,
                                             segment_end)),
                    Append(jts, NewSplice(Max2(c.bar.start_m,
                                               segment_end - c.splice_length),
                                          segment_end)))

BottomCorridorStep(c, current_start, piece_index, safety_counter, segments, jts, cand) ==
    BottomLoopStep(c, current_start, piece_index, safety_counter, segments, jts,
        BottomSegmentEnd(c, current_start,
            BottomSafeStep(c, current_start, cand,
                piece_index = 1 /\ ~cand.is_last_segment /\ cand.needs_zone_adjustment,
                OverlapsProhibitedZone(Max2(c.bar.start_m, cand.end - c.splice_length),
                                       cand.end, c.zones))))

BottomCandidateStep(c, current_start, piece_index, safety_counter, segments, jts, candidate_end) ==
    BottomCorridorStep(c, current_start, piece_index, safety_counter, segments, jts,
        BottomCorridorEnd(c, candidate_end,
            BottomCorridorTarget(c, current_start, piece_index, candidate_end)))

BottomLoop(c, current_start, piece_index, safety_counter, segments, jts) ==
    IF ~LoopContinues(c, current_start, safety_counter)
    THEN [segments |-> segments, joints |-> jts, iterations |-> safety_counter]
    ELSE BottomCandidateStep(c, current_start, piece_index, safety_counter, segments,
                             jts, BottomCandidateEnd(c, current_start, piece_index))

SplitContext(bar, max_length, splice_length, zones, hook_length, edge_cover, beam_length, prefer_previous_zone, offset_pct) ==
    LET cover == Max2(min_edge_cover_m, edge_cover)
    IN [bar |-> bar, max_length |-> max_length, splice_length |-> splice_length,
        zones |-> zones, hook_length |-> hook_length,
        has_start_hook |-> hook_length # 0 /\ bar.start_m <= cover + tolerance,
        has_end_hook |-> hook_length # 0 /\ bar.end_m >= beam_length - cover - tolerance,
        prefer_previous_zone |-> prefer_previous_zone,
        first_segment_target |->
            FirstSegmentTarget(Max2(bar.end_m - bar.start_m, 0), max_length,
                               splice_length, offset_pct)]

\* the bar as planned, with its own splice dicts
Unsplit(bar, plan) ==
    [bars |-> <<[bar EXCEPT !.splices = [i \in 1..Len(plan) |-> i]]>>, joints |-> plan]

Segmented(bar, plan, result) ==
    IF result.segments = <<>> THEN Unsplit(bar, plan)
    ELSE [bars |-> AttachJoints(result.segments, Len(result.joints), 1),
          joints |-> result.joints]

\* _split_top_bar_strategy
SplitTopBarStrategy(c, plan) ==
    Segmented(c.bar, plan, TopLoop(c, c.bar.start_m, 1, 0, <<>>, <<>>))

\* _split_bottom_bar_strategy
SplitBottomBarStrategy(c, plan) ==
    Segmented(c.bar, plan, BottomLoop(c, c.bar.start_m, 1, 0, <<>>, <<>>))

\* _split_bar_by_max_length: [bars, joints], the bars' splices indexing joints
SplitBarByMaxLength(bar, plan, max_length, splice_length, zones, hook_length, edge_cover, beam_length, prefer_previous_zone, offset_pct, is_bottom_bar) ==
    LET c == SplitContext(bar, max_length, splice_length, zones, hook_length,
                          edge_cover, beam_length, prefer_previous_zone, offset_pct)
    IN IF max_length <= 0 \/ bar.length_m <= max_length THEN Unsplit(bar, plan)
       ELSE IF splice_length <= 0 \/ splice_length >= max_length THEN Unsplit(bar, plan)
       ELSE IF is_bottom_bar THEN SplitBottomBarStrategy(c, plan)
       ELSE SplitTopBarStrategy(c, plan)

-----------------------------------------------------------------------------
(* Bars that are not continuous                                            *)

\* _distribute_support_bars
DistributeSupportBars(diameter, count, coords, position, hook_type, development_length) ==
    LET spans == coords.spans
        total_spans == Len(spans)
        avg_quarter == SumSeq([k \in 1..total_spans |-> spans[k].length])
                           \div (4 * total_spans)
        support_bar_length == avg_quarter + development_length
    IN IF total_spans = 0 THEN <<>>
       ELSE [n \in 1..count |->
                LET left == (n - 1) % 2 = 0
                    start == IF left THEN 0 ELSE coords.total_length - support_bar_length
                    end == IF left THEN support_bar_length ELSE coords.total_length
                IN RebarDetail(<<position, diameter, "A", n, 0>>, diameter, position,
                               "support", start, end, hook_type, <<>>,
                               development_length)]

\* max(spans, key=length): the first of the longest spans
LongestSpan(spans) ==
    LET best == {i \in 1..Len(spans) : \A j \in 1..Len(spans) : spans[j].length <= spans[i].length}
    IN spans[CHOOSE i \in best : \A j \in best : i <= j]

\* _create_mid_span_bars
CreateMidSpanBars(diameter, count, spans, position, hook_type, development_length) ==
    LET longest_span == LongestSpan(spans)
        bar_length == Ratio(longest_span.length, 6, 10)
        start == longest_span.start + (longest_span.length - bar_length) \div 2
    IN [n \in 1..count |->
           RebarDetail(<<position, diameter, "M", n, 0>>, diameter, position, "span",
                       start, start + bar_length, hook_type, <<>>, development_length)]

\* _distribute_span_bars
DistributeSpanBars(diameter, count, coords, position, hook_type, development_length, bar_type) ==
    LET spans == coords.spans
        anchored_length == Ratio(spans[1].length, 8, 10)
        anchored == [n \in 1..Min2(count, 2) |->
                        RebarDetail(<<position, diameter, "S", n, 0>>, diameter, position,
                                    "support_anchored", 0, anchored_length, hook_type,
                                    <<>>, development_length)]
        remaining == count - Len(anchored)
    IN IF spans = <<>> THEN <<>>
       ELSE IF bar_type = "support_anchored"
       THEN anchored \o (IF remaining > 0
                         THEN CreateMidSpanBars(diameter, remaining, spans, position,
                                                hook_type, development_length)
                         ELSE <<>>)
       ELSE CreateMidSpanBars(diameter, count, spans, position, hook_type,
                              development_length)

-----------------------------------------------------------------------------
(* _detail_top_bars and _detail_bottom_bars                                *)
(* A face is [bars, joints]: the bars' splices index the face's joints.    *)

ShiftSplices(bars, k) ==
    [i \in 1..Len(bars) |->
        [bars[i] EXCEPT !.splices = [j \in 1..Len(bars[i].splices) |-> bars[i].splices[j] + k]]]

AddSplit(face, split) ==
    [bars |-> face.bars \o ShiftSplices(split.bars, Len(face.joints)),
     joints |-> face.joints \o split.joints]

AddBars(face, bars) == [face EXCEPT !.bars = @ \o bars]

\* the continuous bars of one mark on the top face
RECURSIVE TopContinuous(_, _, _, _, _, _, _)
TopContinuous(data, coords, zones, diameter, continuous_count, i, face) ==
    IF i >= continuous_count THEN face
    ELSE LET total_length == coords.total_length
             splice_length == SpliceLength(data, diameter)
             plan == CalculateSplices(total_length, data.max_bar_length_m, zones,
                                      splice_length)
             bar == RebarDetail(<<"top", diameter, "C", i + 1, 0>>, diameter, "top",
                                "continuous", 0, total_length, data.hook_type, <<>>,
                                DevelopmentLength(data, diameter))
             split == SplitBarByMaxLength(bar, plan, data.max_bar_length_m, splice_length,
                          zones, GetSingleHookLength(diameter, data.hook_type),
                          data.edge_cover_m, total_length, FALSE, 0, FALSE)
         IN TopContinuous(data, coords, zones, diameter, continuous_count, i + 1,
                          AddSplit(face, split))

\* the bars of the mark beyond the continuous ones go over the supports
TopSupportBars(face, data, coords, diameter, remaining_count) ==
    IF remaining_count > 0
    THEN AddBars(face, DistributeSupportBars(diameter, remaining_count, coords, "top",
                           data.hook_type, DevelopmentLength(data, diameter)))
    ELSE face

TopMark(data, coords, zones, diameter, total_count, continuous_count, face) ==
    TopSupportBars(TopContinuous(data, coords, zones, diameter, continuous_count, 0, face),
                   data, coords, diameter, total_count - continuous_count)

RECURSIVE DetailTopWalk(_, _, _, _, _, _)
DetailTopWalk(data, coords, zones, continuous, marks, face) ==
    IF marks = <<>> THEN face
    ELSE DetailTopWalk(data, coords, zones, continuous, Tail(marks),
                       TopMark(data, coords, zones, Head(marks),
                               Count(data.top_bars, Head(marks)),
                               ContinuousCount(continuous.top, Head(marks)), face))

DetailTopBars(data, coords, zones, continuous) ==
    DetailTopWalk(data, coords, zones, continuous, DistinctMarks(data.top_bars, {}),
                  [bars |-> <<>>, joints |-> <<>>])

\* offset_ratio_groups, in percent
offset_ratio_groups == <<8, 16, 24>>

\* the continuous bars of one mark on the bottom face
RECURSIVE BottomContinuous(_, _, _, _, _, _, _)
BottomContinuous(data, coords, zones, diameter, continuous_count, i, face) ==
    IF i >= continuous_count THEN face
    ELSE LET total_length == coords.total_length
             splice_length == SpliceLength(data, diameter)
             plan == BuildBottomSplicePlan(total_length, splice_length, zones,
                                           data.max_bar_length_m, i)
             bar == RebarDetail(<<"bottom", diameter, "C", i + 1, 0>>, diameter, "bottom",
                                "continuous", 0, total_length, data.hook_type, <<>>,
                                DevelopmentLength(data, diameter))
             split == SplitBarByMaxLength(bar, plan, data.max_bar_length_m, splice_length,
                          zones, GetSingleHookLength(diameter, data.hook_type),
                          data.edge_cover_m, total_length, TRUE,
                          offset_ratio_groups[(i % 3) + 1], TRUE)
         IN BottomContinuous(data, coords, zones, diameter, continuous_count, i + 1,
                             AddSplit(face, split))

\* count bars of the mark as span bars of bar_type
BottomSpanBars(face, data, coords, diameter, count, bar_type) ==
    IF count > 0
    THEN AddBars(face, DistributeSpanBars(diameter, count, coords, "bottom",
                           data.hook_type, DevelopmentLength(data, diameter), bar_type))
    ELSE face

\* the bars of the mark beyond the continuous ones: a third of the mark
\* reaches the supports, the rest stays in the span
BottomRemaining(face, data, coords, diameter, remaining_count, support_count) ==
    IF remaining_count > 0
    THEN BottomSpanBars(BottomSpanBars(face, data, coords, diameter, support_count,
                                       "support_anchored"),
                        data, coords, diameter, remaining_count - support_count, "span")
    ELSE face

BottomMark(data, coords, zones, diameter, total_count, continuous_count, face) ==
    BottomRemaining(
        BottomContinuous(data, coords, zones, diameter, continuous_count, 0, face),
        data, coords, diameter, total_count - continuous_count,
        Max2(0, Max2(1, CeilDiv(total_count, 3)) - continuous_count))

RECURSIVE DetailBottomWalk(_, _, _, _, _, _)
DetailBottomWalk(data, coords, zones, continuous, marks, face) ==
    IF marks = <<>> THEN face
    ELSE DetailBottomWalk(data, coords, zones, continuous, Tail(marks),
                          BottomMark(data, coords, zones, Head(marks),
                                     Count(data.bottom_bars, Head(marks)),
                                     ContinuousCount(continuous.bottom, Head(marks)),
                                     face))

DetailBottomBars(data, coords, zones, continuous) ==
    DetailBottomWalk(data, coords, zones, continuous, DistinctMarks(data.bottom_bars, {}),
                     [bars |-> <<>>, joints |-> <<>>])

-----------------------------------------------------------------------------
(* _coordinate_splice_positions                                            *)

SpliceCenter(splice) == (splice.start + splice.end) \div 2

\* splice.get("length") or max(end - start, 0)
SpliceLen(splice) ==
    IF splice.length # 0 THEN splice.length ELSE Max2(splice.end - splice.start, 0)

\* the top splices, one entry per (bar, splice) pair
RECURSIVE CollectSplices(_, _, _)
CollectSplices(bars, jts, b) ==
    IF b > Len(bars) THEN <<>>
    ELSE [k \in 1..Len(bars[b].splices) |->
             [center |-> SpliceCenter(jts[bars[b].splices[k]]),
              length |-> SpliceLen(jts[bars[b].splices[k]])]]
         \o CollectSplices(bars, jts, b + 1)

\* abs(center - existing.center) < max(length, existing.length) * factor,
\* the factor in tenths
TooClose(center, length, existing, factor10) ==
    10 * Abs(center - existing.center) < factor10 * Max2(length, existing.length)

HasConflict(center, length, existing_splices, factor10) ==
    \E e \in 1..Len(existing_splices) :
        TooClose(center, length, existing_splices[e], factor10)

\* _find_non_conflicting_splice_position.  The loops visit candidate k =
\* 12 * attempts + 2 * (magnitude index) + (direction index): attempts 0..9,
\* magnitudes 0.5 m .. 3.0 m, directions +1 then -1.
TestCenter(original_center, k) ==
    LET attempts == k \div 12
        magnitude == 50000 * (((k % 12) \div 2) + 1)
        direction == IF k % 2 = 0 THEN 1 ELSE -1
    IN original_center + direction * magnitude * (attempts + 1)

\* the acceptance test without the zone check
CenterAcceptedInsideZones(test_center, splice_length, existing_splices, zones, beam_length) ==
    /\ ~(test_center < splice_length \div 2)
    /\ ~(test_center > beam_length - splice_length \div 2)
    /\ ~HasConflict(test_center, splice_length, existing_splices, 12)

CenterAccepted(test_center, splice_length, existing_splices, zones, beam_length) ==
    /\ ~(test_center < splice_length \div 2)
    /\ ~(test_center > beam_length - splice_length \div 2)
    /\ ~IsInProhibitedZone(test_center, zones, splice_length)
    /\ ~HasConflict(test_center, splice_length, existing_splices, 12)

\* the first accepted candidate; -1 for None
FindNonConflictingSplicePosition(original_center, splice_length, existing_splices, zones, beam_length) ==
    LET accepted == {k \in 0..119 :
                        CenterAccepted(TestCenter(original_center, k), splice_length,
                                       existing_splices, zones, beam_length)}
    IN IF splice_length <= 0 \/ accepted = {} THEN -1
       ELSE TestCenter(original_center,
                       CHOOSE k \in accepted : \A other \in accepted : k <= other)

\* one bottom splice of the coordinator's inner loop: [joints, existing, adjusted]
CoordinateSplice(jts, ji, existing_splices, zones, beam_length) ==
    LET splice == jts[ji]
        length == SpliceLen(splice)
        original_center == SpliceCenter(splice)
        new_center == FindNonConflictingSplicePosition(original_center, length,
                          existing_splices, zones, beam_length)
        new_start == Max2(0, new_center - length \div 2)
        new_end == Min2(beam_length, new_center + length \div 2)
        kept == Append(existing_splices, [center |-> original_center, length |-> length])
    IN IF length <= 0
       THEN [joints |-> jts, existing |-> existing_splices, adjusted |-> FALSE]
       ELSE IF ~HasConflict(original_center, length, existing_splices, 15)
       THEN [joints |-> jts, existing |-> kept, adjusted |-> FALSE]
       ELSE IF new_center # -1
       THEN [joints |-> [jts EXCEPT ![ji] =
                            [start |-> new_start, end |-> new_end,
                             length |-> new_end - new_start, adjusted |-> TRUE,
                             original_center |-> original_center]],
             existing |-> Append(existing_splices,
                                 [center |-> (new_start + new_end) \div 2,
                                  length |-> new_end - new_start]),
             adjusted |-> TRUE]
       ELSE [joints |-> jts, existing |-> kept, adjusted |-> FALSE]

\* the loops over the bottom bars (b) and over each bar's splices (k)
RECURSIVE CoordinateWalk(_, _, _, _, _, _, _)
CoordinateWalk(bars, jts, existing_splices, zones, beam_length, b, k) ==
    IF b > Len(bars) THEN [bars |-> bars, joints |-> jts]
    ELSE IF k > Len(bars[b].splices)
    THEN CoordinateWalk(bars, jts, existing_splices, zones, beam_length, b + 1, 1)
    ELSE LET r == CoordinateSplice(jts, bars[b].splices[k], existing_splices, zones,
                                   beam_length)
             bars1 == IF r.adjusted THEN [bars EXCEPT ![b].coordinated = TRUE] ELSE bars
         IN CoordinateWalk(bars1, r.joints, r.existing, zones, beam_length, b, k + 1)

\* returns the bottom face; the top face is only read
CoordinateSplicePositions(top, bottom, zones, beam_length) ==
    IF bottom.bars = <<>> \/ beam_length <= 0 THEN bottom
    ELSE CoordinateWalk(bottom.bars, bottom.joints,
                        CollectSplices(top.bars, top.joints, 1),
                        zones, beam_length, 1, 1)

-----------------------------------------------------------------------------
(* _apply_cover_and_hook_adjustments                                       *)

\* start and end clamped to the edge cover, in order
ClampedEnds(bar, total_length, cover) ==
    LET max_end == Max2(total_length - cover, cover)
        s0 == Max2(cover, Min2(bar.start_m, max_end))
        e0 == Max2(cover, Min2(bar.end_m, max_end))
    IN IF e0 < s0 THEN [start |-> e0, end |-> s0] ELSE [start |-> s0, end |-> e0]

\* start_hook + end_hook, from the endpoints before clamping
HookAllowances(bar, total_length, cover) ==
    LET hook_length == GetSingleHookLength(bar.diameter, bar.hook_type)
        start_hook == IF hook_length # 0 /\ bar.start_m <= cover + tolerance
                      THEN hook_length ELSE 0
        end_hook == IF hook_length # 0 /\ bar.end_m >= total_length - cover - tolerance
                    THEN hook_length ELSE 0
    IN start_hook + end_hook

\* the bar from start to end with its hooks, shortened to the stock length
TrimmedBar(bar, start, end, hooks, max_length) ==
    LET straight_length == Max2(end - start, 0)
        total_with_hooks == straight_length + hooks
        over == max_length > 0 /\ total_with_hooks > max_length + tolerance
        allowed_straight == Max2(max_length - hooks, 0)
        trim == over /\ allowed_straight + tolerance < straight_length
        end1 == IF trim THEN start + allowed_straight ELSE end
        total1 == IF trim THEN Max2(end1 - start, 0) + hooks ELSE total_with_hooks
        total2 == IF over /\ total1 > max_length + tolerance THEN max_length ELSE total1
    IN [bar EXCEPT !.start_m = start, !.end_m = end1, !.length_m = total2]

\* the finisher without the trimming of the straight part and the cap
AdjustBarUntrimmed(bar, total_length, edge_cover, max_bar_length) ==
    LET cover == Max2(min_edge_cover_m, edge_cover)
        ends == ClampedEnds(bar, total_length, cover)
    IN [bar EXCEPT !.start_m = ends.start, !.end_m = ends.end,
                   !.length_m = Max2(ends.end - ends.start, 0)
                                  + HookAllowances(bar, total_length, cover)]

\* the finisher without the clamp to the edge cover
AdjustBarUnclamped(bar, total_length, edge_cover, max_bar_length) ==
    LET cover == Max2(min_edge_cover_m, edge_cover)
    IN TrimmedBar(bar, bar.start_m, bar.end_m,
                  HookAllowances(bar, total_length, cover), Max2(max_bar_length, 0))

\* one iteration of the loop over the bars
AdjustBar(bar, total_length, edge_cover, max_bar_length) ==
    LET cover == Max2(min_edge_cover_m, edge_cover)
        ends == ClampedEnds(bar, total_length, cover)
    IN TrimmedBar(bar, ends.start, ends.end,
                  HookAllowances(bar, total_length, cover), Max2(max_bar_length, 0))

ApplyCoverAndHookAdjustments(bars, total_length, edge_cover, max_bar_length) ==
    [i \in 1..Len(bars) |-> AdjustBar(bars[i], total_length, edge_cover, max_bar_length)]

-----------------------------------------------------------------------------
(* _validate_nsr10: the warnings as records                                *)

\* a bar has a splice that overlaps a prohibited zone
SpliceInZone(bar, jts, zones) ==
    \E k \in 1..Len(bar.splices) :
        FindOverlappingZone(jts[bar.splices[k]].start, jts[bar.splices[k]].end, zones) # 0

ContinuousWarnings(top, bottom) ==
    (IF Cardinality({i \in 1..Len(top) : top[i].type = "continuous"}) < 2
     THEN {[kind |-> "min_continuous", face |-> "top"]} ELSE {})
    \cup
    (IF Cardinality({i \in 1..Len(bottom) : bottom[i].type = "continuous"}) < 2
     THEN {[kind |-> "min_continuous", face |-> "bottom"]} ELSE {})

SpliceZoneWarnings(bars, jts, zones) ==
    {[kind |-> "splice_in_zone", bar |-> bars[i].id] :
        i \in {j \in 1..Len(bars) : SpliceInZone(bars[j], jts, zones)}}

DevelopmentWarnings(bars) ==
    {[kind |-> "development", bar |-> bars[i].id] :
        i \in {j \in 1..Len(bars) :
                 /\ bars[j].development_length_m # 0
                 /\ bars[j].length_m < bars[j].development_length_m}}

HookWarnings(data, bars) ==
    IF data.energy_dissipation_class # "DES" THEN {}
    ELSE {[kind |-> "des_hook", bar |-> bars[i].id] :
            i \in {j \in 1..Len(bars) :
                     /\ bars[j].type = "continuous"
                     /\ bars[j].hook_type \notin {"135", "180"}}}

MissingWarnings(top, bottom) ==
    (IF SumSeq([i \in 1..Len(top) |-> top[i].quantity]) = 0
     THEN {[kind |-> "no_bars", face |-> "top"]} ELSE {})
    \cup
    (IF SumSeq([i \in 1..Len(bottom) |-> bottom[i].quantity]) = 0
     THEN {[kind |-> "no_bars", face |-> "bottom"]} ELSE {})

\* the validation with the splice check run on the top bars only
ValidateNsr10TopOnly(data, top, bottom, jts, zones) ==
    ContinuousWarnings(top, bottom)
    \cup SpliceZoneWarnings(top, jts.top, zones)
    \cup DevelopmentWarnings(top \o bottom)
    \cup HookWarnings(data, top \o bottom)
    \cup MissingWarnings(top, bottom)

ValidateNsr10(data, top, bottom, jts, zones) ==
    ContinuousWarnings(top, bottom)
    \cup SpliceZoneWarnings(top, jts.top, zones)
    \cup SpliceZoneWarnings(bottom, jts.bottom, zones)
    \cup DevelopmentWarnings(top \o bottom)
    \cup HookWarnings(data, top \o bottom)
    \cup MissingWarnings(top, bottom)

-----------------------------------------------------------------------------
(* Drawing payload geometry (design_service); round(x, 4) is a multiple of *)
(* 10 units                                                                *)

DEFAULT_SUPPORT_WIDTH_CM == 35

Round4(x) == ((x + 5) \div 10) * 10

\* _span_length
SpanLength(span) == Round4(span.clear_span_between_supports_m)

\* widths_cm extended with its last entry (or the default) up to expected
ExtendWidths(widths_cm, expected_supports) ==
    IF Len(widths_cm) >= expected_supports THEN widths_cm
    ELSE widths_cm \o Repeat(IF widths_cm # <<>> THEN widths_cm[Len(widths_cm)]
                             ELSE DEFAULT_SUPPORT_WIDTH_CM,
                             expected_supports - Len(widths_cm))

RECURSIVE SupportsWalk(_, _, _, _, _)
SupportsWalk(span_data, widths_cm, index, cursor, supports) ==
    IF index >= Len(span_data) + 1 THEN supports
    ELSE LET width_cm == IF index < Len(widths_cm) THEN widths_cm[index + 1]
                         ELSE DEFAULT_SUPPORT_WIDTH_CM
             width_m == Round4((IF width_cm = 0 THEN DEFAULT_SUPPORT_WIDTH_CM
                                ELSE width_cm) * 1000)
             start == Round4(cursor)
             end == Round4(cursor + width_m)
             next == IF index < Len(span_data)
                     THEN Round4(end + SpanLength(span_data[index + 1]))
                     ELSE end
         IN SupportsWalk(span_data, widths_cm, index + 1, next,
                         Append(supports, [index |-> index, width_m |-> width_m,
                                           start_m |-> start, end_m |-> end]))

\* _build_supports
BuildSupports(despiece) ==
    SupportsWalk(despiece.span_geometries,
                 ExtendWidths([i \in 1..Len(despiece.axis_supports) |->
                                  despiece.axis_supports[i].support_width_cm],
                              Len(despiece.span_geometries) + 1),
                 0, 0, <<>>)

\* _build_spans
BuildSpans(despiece, supports) ==
    [k \in 1..Len(despiece.span_geometries) |->
        LET start == Round4(supports[k].end_m)
            clear_length == SpanLength(despiece.span_geometries[k])
        IN [index |-> k - 1, clear_length_m |-> clear_length,
            start_m |-> start, end_m |-> Round4(start + clear_length)]]

\* _resolve_total_length
ResolveTotalLength(despiece, supports, spans) ==
    IF despiece.beam_total_length_m > 0 THEN despiece.beam_total_length_m
    ELSE IF supports # <<>> THEN Round4(supports[Len(supports)].end_m)
    ELSE IF spans # <<>> THEN Round4(spans[Len(spans)].end_m)
    ELSE 0

\* geometry of build_beam_drawing_payload
BeamGeometry(despiece) ==
    LET supports == BuildSupports(despiece)
        spans == BuildSpans(despiece, supports)
    IN [total_length_m |-> ResolveTotalLength(despiece, supports, spans),
        spans |-> spans, supports |-> supports]

-----------------------------------------------------------------------------
(* The request and the steps of compute_detailing                          *)

BarConfigs == {<<[diameter |-> d, quantity |-> q]>> : d \in Diameters, q \in 0..MaxQty}

Geometries ==
    UNION {[1..n -> [clear_span_between_supports_m : SpanLengths,
                     section_height_cm : SectionHeightsCm]] : n \in 1..MaxSpans}

\* requests carry no segment_reinforcements, so step 7 of compute_detailing
\* (_apply_segment_reinforcement) adds no bars
Requests ==
    {[span_geometries |-> g,
      axis_supports |-> [i \in 1..Len(g) + 1 |-> [support_width_cm |-> w]],
      top_bars_config |-> t, bottom_bars_config |-> b,
      cover_cm |-> c, max_rebar_length_m |-> m, hook_type |-> h,
      energy_dissipation_class |-> e] :
        g \in Geometries, w \in SupportWidthsCm, t \in BarConfigs, b \in BarConfigs,
        c \in CoverCm, m \in MaxBarLengths, h \in HookTypes, e \in EnergyClasses}

\* no render, no earlier call of the service, no loader thread
ServiceIdle ==
    /\ document = None /\ served = <<>> /\ loaders = None
    /\ segmenting = None /\ iteration_count = 0 /\ job = None /\ cutting = None

\* no call into the other modules is under way
ModulesIdle == stirrups = None /\ lanes = None /\ ServiceIdle

Init ==
    /\ input \in Requests
    /\ pc = "preprocess"
    /\ beam_data = None
    /\ coordinates = None
    /\ continuous_bars = None
    /\ prohibited_zones = <<>>
    /\ top_bars = <<>>
    /\ bottom_bars = <<>>
    /\ joints = [top |-> <<>>, bottom |-> <<>>]
    /\ warnings = {}
    /\ payload = None
    /\ ModulesIdle

\* step 1; an empty result ends the call with success = False
Preprocess ==
    /\ pc = "preprocess"
    /\ beam_data' = PreprocessData(input)
    /\ pc' = IF PreprocessData(input) = None THEN "invalid" ELSE "coordinates"
    /\ UNCHANGED <<input, coordinates, continuous_bars, prohibited_zones, top_bars,
                   bottom_bars, joints, warnings, payload>>
    /\ UNCHANGED module_vars

\* step 2
Coordinates ==
    /\ pc = "coordinates"
    /\ coordinates' = CalculateCoordinates(input)
    /\ pc' = "continuous"
    /\ UNCHANGED <<input, beam_data, continuous_bars, prohibited_zones, top_bars,
                   bottom_bars, joints, warnings, payload>>
    /\ UNCHANGED module_vars

\* step 3
Continuous ==
    /\ pc = "continuous"
    /\ continuous_bars' = IdentifyContinuousBars(beam_data)
    /\ pc' = "zones"
    /\ UNCHANGED <<input, beam_data, coordinates, prohibited_zones, top_bars,
                   bottom_bars, joints, warnings, payload>>
    /\ UNCHANGED module_vars

\* step 4
Zones ==
    /\ pc = "zones"
    /\ prohibited_zones' = CalculateProhibitedZones(coordinates, beam_data)
    /\ pc' = "top"
    /\ UNCHANGED <<input, beam_data, coordinates, continuous_bars, top_bars,
                   bottom_bars, joints, warnings, payload>>
    /\ UNCHANGED module_vars

\* step 6
DetailTop ==
    /\ pc = "top"
    /\ LET face == DetailTopBars(beam_data, coordinates, prohibited_zones, continuous_bars)
       IN /\ top_bars' = face.bars
          /\ joints' = [joints EXCEPT !.top = face.joints]
    /\ pc' = "bottom"
    /\ UNCHANGED <<input, beam_data, coordinates, continuous_bars, prohibited_zones,
                   bottom_bars, warnings, payload>>
    /\ UNCHANGED module_vars

\* step 7
DetailBottom ==
    /\ pc = "bottom"
    /\ LET face == DetailBottomBars(beam_data, coordinates, prohibited_zones,
                                    continuous_bars)
       IN /\ bottom_bars' = face.bars
          /\ joints' = [joints EXCEPT !.bottom = face.joints]
    /\ pc' = "coordinate"
    /\ UNCHANGED <<input, beam_data, coordinates, continuous_bars, prohibited_zones,
                   top_bars, warnings, payload>>
    /\ UNCHANGED module_vars

\* _coordinate_splice_positions (the request carries no segment_reinforcements)
Coordinate ==
    /\ pc = "coordinate"
    /\ LET face == CoordinateSplicePositions(
                       [bars |-> top_bars, joints |-> joints.top],
                       [bars |-> bottom_bars, joints |-> joints.bottom],
                       prohibited_zones, coordinates.total_length)
       IN /\ bottom_bars' = face.bars
          /\ joints' = [joints EXCEPT !.bottom = face.joints]
    /\ pc' = "finish_top"
    /\ UNCHANGED <<input, beam_data, coordinates, continuous_bars, prohibited_zones,
                   top_bars, warnings, payload>>
    /\ UNCHANGED module_vars

\* _apply_cover_and_hook_adjustments(top_bars, ...)
FinishTop ==
    /\ pc = "finish_top"
    /\ top_bars' = ApplyCoverAndHookAdjustments(top_bars, coordinates.total_length,
                       beam_data.edge_cover_m, beam_data.max_bar_length_m)
    /\ pc' = "finish_bottom"
    /\ UNCHANGED <<input, beam_data, coordinates, continuous_bars, prohibited_zones,
                   bottom_bars, joints, warnings, payload>>
    /\ UNCHANGED module_vars

\* _apply_cover_and_hook_adjustments(bottom_bars, ...)
FinishBottom ==
    /\ pc = "finish_bottom"
    /\ bottom_bars' = ApplyCoverAndHookAdjustments(bottom_bars, coordinates.total_length,
                          beam_data.edge_cover_m, beam_data.max_bar_length_m)
    /\ pc' = "validate"
    /\ UNCHANGED <<input, beam_data, coordinates, continuous_bars, prohibited_zones,
                   top_bars, joints, warnings, payload>>
    /\ UNCHANGED module_vars

\* step 10; the response is then returned with success = True
Validate ==
    /\ pc = "validate"
    /\ warnings' = ValidateNsr10(beam_data, top_bars, bottom_bars, joints,
                                 prohibited_zones)
    /\ pc' = "done"
    /\ UNCHANGED <<input, beam_data, coordinates, continuous_bars, prohibited_zones,
                   top_bars, bottom_bars, joints, payload>>
    /\ UNCHANGED module_vars

\* the stored despiece: the request's geometry and the beam_total_length_m
\* column, which compute_detailing never reads
DespieceVigaRead(request, stored_total) ==
    [span_geometries |-> request.span_geometries,
     axis_supports |-> request.axis_supports,
     beam_total_length_m |-> stored_total]

\* build_beam_drawing_payload on the stored despiece
BuildBeamDrawingPayload ==
    /\ pc \in {"done", "invalid"}
    /\ payload = None
    /\ \E stored_total \in StoredTotals :
           payload' = BeamGeometry(DespieceVigaRead(input, stored_total))
    /\ UNCHANGED <<input, pc, beam_data, coordinates, continuous_bars, prohibited_zones,
                   top_bars, bottom_bars, joints, warnings>>
    /\ UNCHANGED module_vars

Next ==
    \/ Preprocess
    \/ Coordinates
    \/ Continuous
    \/ Zones
    \/ DetailTop
    \/ DetailBottom
    \/ Coordinate
    \/ FinishTop
    \/ FinishBottom
    \/ Validate
    \/ BuildBeamDrawingPayload

Spec == Init /\ [][Next]_vars

-----------------------------------------------------------------------------
(* Views of the result                                                     *)

BarFaces == {"top", "bottom"}
FaceBars(face) == IF face = "top" THEN top_bars ELSE bottom_bars
\* the splice dict behind the k-th entry of bar.splices
SpliceOf(face, bar, k) == joints[face][bar.splices[k]]
\* the response has been returned with success = True
Returned == pc = "done"
\* both finisher calls have run
Finished == pc \in {"validate", "done"}
\* the coordinator has run
Coordinated == pc \in {"finish_top", "finish_bottom", "validate", "done"}
\* _calculate_coordinates has run
Located == pc \notin {"preprocess", "coordinates", "invalid"}
EdgeCover == Max2(min_edge_cover_m, beam_data.edge_cover_m)
\* two segments of the same continuous bar share face, mark, series and number
SameInstance(a, b) ==
    /\ a.id[1] = b.id[1] /\ a.id[2] = b.id[2] /\ a.id[3] = b.id[3] /\ a.id[4] = b.id[4]
Intersect(s1, e1, s2, e2) == Max2(s1, s2) < Min2(e1, e2)

-----------------------------------------------------------------------------
(* C1                                                                      *)

BarSpliceMeetsZone(face, bar) ==
    \E k \in 1..Len(bar.splices) : \E z \in 1..Len(prohibited_zones) :
        /\ prohibited_zones[z].end_m > prohibited_zones[z].start_m
        /\ Intersect(SpliceOf(face, bar, k).start, SpliceOf(face, bar, k).end,
                     prohibited_zones[z].start_m, prohibited_zones[z].end_m)

\* C1: in every successful result, every bar (top or bottom) that records a
\* splice overlapping a prohibited zone of positive length is named by a
\* splice-in-prohibited-zone warning; with no such warning no splice overlaps
\* a zone.
C1_SpliceInZoneIsWarned ==
    Returned =>
        \A face \in BarFaces : \A i \in 1..Len(FaceBars(face)) :
            BarSpliceMeetsZone(face, FaceBars(face)[i]) =>
                [kind |-> "splice_in_zone", bar |-> FaceBars(face)[i].id] \in warnings

C1_Witness ==
    /\ Returned
    /\ \E i \in 1..Len(bottom_bars) :
          /\ BarSpliceMeetsZone("bottom", bottom_bars[i])
          /\ [kind |-> "splice_in_zone", bar |-> bottom_bars[i].id] \in warnings

-----------------------------------------------------------------------------
(* C2                                                                      *)

\* |center(b) - center(t)| >= 1.2 * max(length(b), length(t)), on doubled centers
FarApart(b, t) ==
    10 * Abs((b.start + b.end) - (t.start + t.end))
        >= 24 * Max2(SpliceLen(b), SpliceLen(t))

\* C2: after the splice coordinator has run, every bottom splice is either at
\* least 1.2 * max(length) away (centre to centre) from every top splice or
\* tagged adjusted; no untagged bottom splice is closer than that to a top one.
C2_BottomSplicesKeptApart ==
    Coordinated =>
        \A i \in 1..Len(bottom_bars) : \A k \in 1..Len(bottom_bars[i].splices) :
            \/ SpliceOf("bottom", bottom_bars[i], k).adjusted
            \/ \A j \in 1..Len(top_bars) : \A m \in 1..Len(top_bars[j].splices) :
                  FarApart(SpliceOf("bottom", bottom_bars[i], k),
                           SpliceOf("top", top_bars[j], m))

-----------------------------------------------------------------------------
(* C3                                                                      *)

\* C3: in every result, the splices of two different continuous bar instances
\* of the same face (also two bars of the same diameter) are pairwise disjoint.
C3_NoOverlapOnOneFace ==
    Returned =>
        \A face \in BarFaces : \A i, j \in 1..Len(FaceBars(face)) :
            LET a == FaceBars(face)[i]
                b == FaceBars(face)[j]
            IN (a.type = "continuous" /\ b.type = "continuous" /\ ~SameInstance(a, b)) =>
                   \A k \in 1..Len(a.splices) : \A m \in 1..Len(b.splices) :
                       ~Intersect(SpliceOf(face, a, k).start, SpliceOf(face, a, k).end,
                                  SpliceOf(face, b, m).start, SpliceOf(face, b, m).end)

-----------------------------------------------------------------------------
(* C4                                                                      *)

\* bars[i + 1] is the segment after bars[i] of the same continuous bar
NextSegment(bars, i) ==
    /\ i < Len(bars)
    /\ SameInstance(bars[i], bars[i + 1])
    /\ bars[i + 1].id[5] = bars[i].id[5] + 1

SharedJoints(a, b) ==
    {a.splices[k] : k \in 1..Len(a.splices)} \cap {b.splices[k] : k \in 1..Len(b.splices)}

\* C4: in the final result the segments of every split continuous bar tile
\* it: the first starts at the bar's start, the last ends at the bar's end,
\* and two consecutive segments overlap by exactly one joint, whose recorded
\* interval is that overlap and whose length is the lap length within 1e-3.
C4_SegmentsTileTheBar ==
    Returned =>
        \A face \in BarFaces : \A i \in 1..Len(FaceBars(face)) :
            LET bars == FaceBars(face)
                seg == bars[i]
            IN (seg.type = "continuous" /\ seg.id[5] >= 1) =>
                /\ seg.id[5] = 1 => seg.start_m = EdgeCover
                /\ ~NextSegment(bars, i) =>
                       seg.end_m = coordinates.total_length - EdgeCover
                /\ NextSegment(bars, i) =>
                       /\ Cardinality(SharedJoints(seg, bars[i + 1])) = 1
                       /\ \A jt \in SharedJoints(seg, bars[i + 1]) :
                             /\ joints[face][jt].start = bars[i + 1].start_m
                             /\ joints[face][jt].end = seg.end_m
                             /\ Abs(joints[face][jt].length
                                    - SpliceLength(beam_data, seg.diameter)) <= tolerance

-----------------------------------------------------------------------------
(* C5                                                                      *)

\* C5 as stated: after the finisher no bar is longer than Lmax.
C5_NoBarLongerThanStock ==
    Finished =>
        \A face \in BarFaces : \A i \in 1..Len(FaceBars(face)) :
            beam_data.max_bar_length_m > 0 =>
                FaceBars(face)[i].length_m <= beam_data.max_bar_length_m

\* C5, amended: after the finisher no bar of any type is longer than Lmax
\* plus the finisher's tolerance of 1e-3 m (for every input with Lmax > 0).
C5_NoBarLongerThanStockPlusTolerance ==
    Finished =>
        \A face \in BarFaces : \A i \in 1..Len(FaceBars(face)) :
            beam_data.max_bar_length_m > 0 =>
                FaceBars(face)[i].length_m <= beam_data.max_bar_length_m + tolerance

C5_Witness ==
    /\ Finished
    /\ \E i \in 1..Len(top_bars) :
          /\ top_bars[i].length_m > beam_data.max_bar_length_m
          /\ top_bars[i].length_m <= beam_data.max_bar_length_m + tolerance

-----------------------------------------------------------------------------
(* C6                                                                      *)

\* C6: after the finisher, on a beam with total_length >= 2 * cover, every
\* bar has cover <= start_m <= end_m <= total_length - cover, also when the
\* finisher has shortened the bar to respect Lmax.
C6_EndpointsInsideCover ==
    (Finished /\ coordinates.total_length >= 2 * EdgeCover) =>
        \A face \in BarFaces : \A i \in 1..Len(FaceBars(face)) :
            /\ EdgeCover <= FaceBars(face)[i].start_m
            /\ FaceBars(face)[i].start_m <= FaceBars(face)[i].end_m
            /\ FaceBars(face)[i].end_m <= coordinates.total_length - EdgeCover

\* a bar that ran from edge to edge and was shortened to the stock length
C6_Witness ==
    /\ Finished
    /\ coordinates.total_length >= 2 * EdgeCover
    /\ \E i \in 1..Len(bottom_bars) :
          /\ bottom_bars[i].start_m = EdgeCover
          /\ bottom_bars[i].end_m < coordinates.total_length - EdgeCover
          /\ bottom_bars[i].id[5] = 0
          /\ bottom_bars[i].type = "continuous"
          /\ bottom_bars[i].length_m = beam_data.max_bar_length_m

-----------------------------------------------------------------------------
(* C7                                                                      *)

\* hook allowance the table gives an endpoint that touches the edge cover
HookIfNear(bar, near) ==
    IF near THEN hook_length_table(bar.diameter, bar.hook_type) ELSE 0
NearStart(bar) == bar.start_m <= EdgeCover + tolerance
NearEnd(bar) == bar.end_m >= coordinates.total_length - EdgeCover - tolerance

\* length_m of the finished bar is straight + start hook + end hook
HookedLength(before, after) ==
    after.length_m = (after.end_m - after.start_m)
                       + HookIfNear(before, NearStart(before))
                       + HookIfNear(before, NearEnd(before))

\* every endpoint that touches the edge cover gets a nonzero allowance
HooksWhereverNear(before) ==
    (NearStart(before) \/ NearEnd(before)) =>
        hook_length_table(before.diameter, before.hook_type) # 0

FinisherStep(P(_, _)) ==
    /\ pc = "finish_top" =>
          \A i \in 1..Len(top_bars) :
              top_bars[i].type = "continuous" => P(top_bars[i], top_bars'[i])
    /\ pc = "finish_bottom" =>
          \A i \in 1..Len(bottom_bars) :
              bottom_bars[i].type = "continuous" => P(bottom_bars[i], bottom_bars'[i])

C7_AsStated(before, after) == HookedLength(before, after) /\ HooksWhereverNear(before)

\* C7 as stated: the finisher leaves every continuous bar with length_m =
\* (end_m - start_m) + start_hook + end_hook, a hook being nonzero (and then
\* H(mark, hook_type)) exactly when the endpoint before clamping was within
\* cover + 1e-3 of that beam end.
C7_HooksIffNearEdge == [][FinisherStep(C7_AsStated)]_vars

\* the two hooks fit in one stock bar; otherwise the finisher caps length_m
HooksFitStock(before) ==
    HookIfNear(before, NearStart(before)) + HookIfNear(before, NearEnd(before))
        <= beam_data.max_bar_length_m

HookedLengthWithinStock(before, after) ==
    HooksFitStock(before) => HookedLength(before, after)

\* C7, amended: when the two hooks together do not exceed Lmax, the finisher
\* leaves every continuous bar with length_m = (end_m - start_m) + start_hook
\* + end_hook, where a hook is H(mark, hook_type) when the endpoint before
\* clamping was within cover + 1e-3 of that beam end and the table defines
\* H(mark, hook_type), and 0 otherwise.
C7_HooksIffNearEdgeAndTabulated == [][FinisherStep(HookedLengthWithinStock)]_vars

\* a finished continuous bar that starts at the cover and carries its hook
C7_Witness ==
    /\ Finished
    /\ \E i \in 1..Len(top_bars) :
          /\ top_bars[i].type = "continuous"
          /\ top_bars[i].start_m = EdgeCover
          /\ hook_length_table(top_bars[i].diameter, top_bars[i].hook_type) # 0
          /\ top_bars[i].length_m > top_bars[i].end_m - top_bars[i].start_m

-----------------------------------------------------------------------------
(* C8                                                                      *)

\* C8: when the beam's total length does not exceed Lmax, every continuous
\* bar of both faces is a single segment without splices.
C8_ShortBeamHasNoSplices ==
    (Returned /\ coordinates.total_length <= beam_data.max_bar_length_m) =>
        \A face \in BarFaces : \A i \in 1..Len(FaceBars(face)) :
            FaceBars(face)[i].type = "continuous" =>
                /\ FaceBars(face)[i].id[5] = 0
                /\ FaceBars(face)[i].splices = <<>>

-----------------------------------------------------------------------------
(* C9                                                                      *)

SumOfRequest ==
    SumSeq([i \in 1..Len(input.axis_supports) |->
               input.axis_supports[i].support_width_cm * 1000])
    + SumSeq([i \in 1..Len(input.span_geometries) |->
                 input.span_geometries[i].clear_span_between_supports_m])

SumOfPayload ==
    SumSeq([i \in 1..Len(payload.supports) |-> payload.supports[i].width_m])
    + SumSeq([i \in 1..Len(payload.spans) |-> payload.spans[i].clear_length_m])

\* C9: with #supports = #spans + 1 the total length is the sum of the support
\* widths and the clear spans, in the engine's coordinates and in the drawing
\* payload's BeamGeometry.
C9_TotalLengthIsSum ==
    Len(input.axis_supports) = Len(input.span_geometries) + 1 =>
        /\ Located => coordinates.total_length = SumOfRequest
        /\ payload # None => payload.total_length_m = SumOfPayload

-----------------------------------------------------------------------------
(* C10                                                                     *)

\* supports and spans interleaved, as <<start, end>> pairs
RECURSIVE Interleave(_, _)
Interleave(sup, spn) ==
    IF sup = <<>> THEN spn
    ELSE <<Head(sup)>> \o Interleave(spn, Tail(sup))

Tiles(intervals, total) ==
    /\ intervals # <<>>
    /\ intervals[1][1] = 0
    /\ \A k \in 1..(Len(intervals) - 1) : intervals[k + 1][1] = intervals[k][2]
    /\ \A k \in 1..Len(intervals) : intervals[k][1] <= intervals[k][2]
    /\ intervals[Len(intervals)][2] = total

\* C10: supports and spans, interleaved (support 0, span 0, support 1, ...),
\* tile [0, total_length]: the first starts at 0, each starts where the one
\* before ends, the last ends at total_length, none overlap; in the engine's
\* coordinates and in the drawing payload.
C10_SupportsAndSpansTile ==
    /\ Located =>
          Tiles(Interleave(
                  [k \in 1..Len(coordinates.supports) |->
                      <<coordinates.supports[k].start, coordinates.supports[k].end>>],
                  [k \in 1..Len(coordinates.spans) |->
                      <<coordinates.spans[k].start, coordinates.spans[k].end>>]),
                coordinates.total_length)
    /\ payload # None =>
          Tiles(Interleave(
                  [k \in 1..Len(payload.supports) |->
                      <<payload.supports[k].start_m, payload.supports[k].end_m>>],
                  [k \in 1..Len(payload.spans) |->
                      <<payload.spans[k].start_m, payload.spans[k].end_m>>]),
                payload.total_length_m)

-----------------------------------------------------------------------------
(* C11                                                                     *)

\* the request schema puts no condition on the number of axis_supports
SupportCounts == 0..(MaxSpans + 2)

AnySupportRequests ==
    {[span_geometries |-> g,
      axis_supports |-> [i \in 1..n |-> [support_width_cm |-> w]],
      top_bars_config |-> t, bottom_bars_config |-> b,
      cover_cm |-> c, max_rebar_length_m |-> m, hook_type |-> h,
      energy_dissipation_class |-> e] :
        g \in Geometries, n \in SupportCounts, w \in SupportWidthsCm,
        t \in BarConfigs, b \in BarConfigs,
        c \in CoverCm, m \in MaxBarLengths, h \in HookTypes, e \in EnergyClasses}

InitAnySupports ==
    /\ input \in AnySupportRequests
    /\ pc = "preprocess"
    /\ beam_data = None
    /\ coordinates = None
    /\ continuous_bars = None
    /\ prohibited_zones = <<>>
    /\ top_bars = <<>>
    /\ bottom_bars = <<>>
    /\ joints = [top |-> <<>>, bottom |-> <<>>]
    /\ warnings = {}
    /\ payload = None
    /\ ModulesIdle

SpecAnySupports == InitAnySupports /\ [][Next]_vars

SupportsMismatch == Len(input.axis_supports) # Len(input.span_geometries) + 1

\* C11: a request whose number of supports differs from its number of spans
\* plus one never gets a successful result.
C11_MismatchedSupportsRejected == SupportsMismatch => ~Returned

-----------------------------------------------------------------------------
(* C12                                                                     *)

NoBarsAfterExpansion ==
    /\ ExpandBarConfig(input.top_bars_config) = <<>>
    /\ ExpandBarConfig(input.bottom_bars_config) = <<>>

\* C12: when the expanded top and bottom bar lists are both empty, the call
\* ends after preprocessing with success = False and no results: no
\* coordinates, zones, bars, joints or warnings are ever produced.
C12_NoBarsIsFatal ==
    (NoBarsAfterExpansion /\ pc # "preprocess") =>
        /\ pc = "invalid"
        /\ beam_data = None
        /\ coordinates = None
        /\ continuous_bars = None
        /\ prohibited_zones = <<>>
        /\ top_bars = <<>> /\ bottom_bars = <<>>
        /\ joints = [top |-> <<>>, bottom |-> <<>>]
        /\ warnings = {}

C12_Witness == NoBarsAfterExpansion /\ pc = "invalid"

-----------------------------------------------------------------------------
(* C13                                                                     *)

\* the finisher trims or caps the bar: lines 1809-1824 change its result
FinisherShortens(bar) ==
    AdjustBar(bar, coordinates.total_length, beam_data.edge_cover_m,
              beam_data.max_bar_length_m)
      # AdjustBarUntrimmed(bar, coordinates.total_length, beam_data.edge_cover_m,
                           beam_data.max_bar_length_m)

\* result.warnings of the call, given the finished bars of both faces
ResultWarnings(top, bottom) ==
    ValidateNsr10(beam_data, top, bottom, joints, prohibited_zones)

InfeasibleSegmentationWarned(bar, result_warnings) ==
    \E w \in result_warnings : w.kind = "infeasible_segmentation" /\ w.bar = bar.id

\* C13: whenever the finisher has to shorten or cap a bar because its hooked
\* length exceeds Lmax, the successful result's warnings contain a warning of
\* infeasible segmentation for that bar.
C13_ShortenedBarIsWarned ==
    [][/\ pc = "finish_top" =>
            \A i \in 1..Len(top_bars) :
                FinisherShortens(top_bars[i]) =>
                    InfeasibleSegmentationWarned(top_bars[i],
                        ResultWarnings(top_bars',
                            ApplyCoverAndHookAdjustments(bottom_bars,
                                coordinates.total_length, beam_data.edge_cover_m,
                                beam_data.max_bar_length_m)))
       /\ pc = "finish_bottom" =>
            \A i \in 1..Len(bottom_bars) :
                FinisherShortens(bottom_bars[i]) =>
                    InfeasibleSegmentationWarned(bottom_bars[i],
                        ResultWarnings(top_bars, bottom_bars'))]_vars

-----------------------------------------------------------------------------
(* C14                                                                     *)

\* C14: in every successful result, a face for which the continuous-bar
\* selector chose fewer than 2 bars carries the 'minimum 2 continuous bars'
\* warning, however many segments those bars were split into.
C14_FewContinuousBarsIsWarned ==
    Returned =>
        \A face \in BarFaces :
            continuous_bars[face].total_continuous < 2 =>
                [kind |-> "min_continuous", face |-> face] \in warnings

-----------------------------------------------------------------------------
(* _generate_material_list and _optimize_cutting_stock                     *)
(* waste_percentage in tenths of a percent                                 *)

\* length_counts: one entry per piece
RECURSIVE PieceLengths(_)
PieceLengths(bars) ==
    IF bars = <<>> THEN <<>>
    ELSE Repeat(Head(bars).length_m, Head(bars).quantity) \o PieceLengths(Tail(bars))

\* every piece is cut from one stock, whatever its capacity
FillStockUnbounded(remaining, current_bar, current_cuts, left) ==
    [current_cuts |-> current_cuts \o remaining, remaining |-> left]

\* a stock takes the first remaining piece and no other
FillStockOnePiece(remaining, current_bar, current_cuts, left) ==
    IF Head(remaining) <= current_bar
    THEN [current_cuts |-> <<Head(remaining)>>, remaining |-> Tail(remaining)]
    ELSE [current_cuts |-> <<>>, remaining |-> remaining]

\* the inner while: every remaining piece that still fits is cut from the stock
RECURSIVE FillStock(_, _, _, _)
FillStock(remaining, current_bar, current_cuts, left) ==
    IF remaining = <<>> THEN [current_cuts |-> current_cuts, remaining |-> left]
    ELSE IF Head(remaining) <= current_bar
         THEN FillStock(Tail(remaining), current_bar - Head(remaining),
                        Append(current_cuts, Head(remaining)), left)
    ELSE FillStock(Tail(remaining), current_bar, current_cuts,
                   Append(left, Head(remaining)))

\* efficiency in hundredths of a percent, truncated
Efficiency(used, max_length) ==
    IF max_length > 0 THEN (used * 100) \div (max_length \div 100) ELSE 0

StockCut(max_length, current_cuts) ==
    [commercial_length |-> max_length, cut_lengths |-> current_cuts, num_bars |-> 1,
     waste_m |-> max_length - SumSeq(current_cuts),
     efficiency |-> Efficiency(SumSeq(current_cuts), max_length)]

\* the bar that fits no stock is registered as a piece of its own
LongBarCut(max_length, long_bar) ==
    [commercial_length |-> Max2(long_bar, max_length), cut_lengths |-> <<long_bar>>,
     num_bars |-> 1, waste_m |-> Max2(max_length - long_bar, 0),
     efficiency |-> IF long_bar >= max_length THEN 10000
                    ELSE Efficiency(long_bar, max_length)]

RECURSIVE CuttingLoop(_, _, _)
CuttingStep(filled, remaining, max_length, cuts) ==
    IF filled.current_cuts # <<>>
    THEN CuttingLoop(filled.remaining, max_length,
                     Append(cuts, StockCut(max_length, filled.current_cuts)))
    ELSE CuttingLoop(Tail(remaining), max_length,
                     Append(cuts, LongBarCut(max_length, Head(remaining))))

CuttingLoop(remaining, max_length, cuts) ==
    IF remaining = <<>> THEN cuts
    ELSE CuttingStep(FillStock(remaining, max_length, <<>>, <<>>), remaining,
                     max_length, cuts)

OptimizeCuttingStock(bars, max_length) ==
    CuttingLoop(SortDesc(PieceLengths(bars), <<>>), max_length, <<>>)

\* round(waste / total * 100, 1) in tenths, half to even, digit by digit so
\* that no product leaves 32 bits; exact is TRUE when nothing was rounded.
\* On an exact tie the float quotient of the code may round either way.
RoundedTenths(q, r, total) ==
    [tenths |-> IF 2 * r > total \/ (2 * r = total /\ q % 2 = 1) THEN q + 1 ELSE q,
     exact |-> r = 0]

PercentDigit(acc, total) ==
    [q |-> acc.q * 10 + (acc.r * 10) \div total, r |-> (acc.r * 10) % total]

WastePercentage(waste, total) ==
    LET d == PercentDigit(PercentDigit(PercentDigit(
                 [q |-> waste \div total, r |-> waste % total], total), total), total)
    IN RoundedTenths(d.q, d.r, total)

TotalCommercialLength(commercial_lengths) ==
    SumSeq([k \in 1..Len(commercial_lengths) |->
               commercial_lengths[k].num_bars * commercial_lengths[k].commercial_length])

MaterialItem(diameter, total_length, pieces, commercial_lengths, total_commercial_length) ==
    [diameter |-> diameter,
     total_length |-> total_length,
     pieces |-> pieces,
     commercial_lengths |-> commercial_lengths,
     waste_percentage |-> IF total_commercial_length > 0
                          THEN WastePercentage(total_commercial_length - total_length,
                                               total_commercial_length).tenths
                          ELSE 0]

DiameterItem(diameter, bars, commercial_lengths) ==
    MaterialItem(diameter,
                 SumSeq([k \in 1..Len(bars) |-> bars[k].length_m * bars[k].quantity]),
                 SumSeq([k \in 1..Len(bars) |-> bars[k].quantity]),
                 commercial_lengths, TotalCommercialLength(commercial_lengths))

GenerateMaterialList(all_bars, data) ==
    LET marks == DistinctMarks([k \in 1..Len(all_bars) |-> all_bars[k].diameter], {})
        by_diameter(d) == SelectSeq(all_bars, LAMBDA bar : bar.diameter = d)
    IN [m \in 1..Len(marks) |->
           DiameterItem(marks[m], by_diameter(marks[m]),
                        OptimizeCuttingStock(by_diameter(marks[m]), data.max_bar_length_m))]

\* results.material_list: step 9 of compute_detailing, on the finished bars
material_list == GenerateMaterialList(top_bars \o bottom_bars, beam_data)

-----------------------------------------------------------------------------
(* C15                                                                     *)

Required(item) == item.total_length
Supplied(item) == TotalCommercialLength(item.commercial_lengths)

\* C15 as stated: for every material item the commercial lengths sum to at
\* least the required length, and waste_percentage is exactly
\* (sum - required) / sum * 100, never negative.
C15_AsStated ==
    Finished =>
        \A m \in 1..Len(material_list) :
            /\ Supplied(material_list[m]) >= Required(material_list[m])
            /\ material_list[m].waste_percentage >= 0
            /\ Supplied(material_list[m]) > 0 =>
                  /\ WastePercentage(Supplied(material_list[m]) - Required(material_list[m]),
                                     Supplied(material_list[m])).exact
                  /\ material_list[m].waste_percentage
                       = WastePercentage(Supplied(material_list[m])
                                           - Required(material_list[m]),
                                         Supplied(material_list[m])).tenths

\* the tenths of a percent nearest to waste / total * 100 (two on a tie)
NearestTenths(waste, total) ==
    {t \in {WastePercentage(waste, total).tenths - 1,
             WastePercentage(waste, total).tenths,
             WastePercentage(waste, total).tenths + 1} :
        /\ t >= 0
        /\ PercentDigit(PercentDigit(PercentDigit(
               [q |-> (2 * waste) \div total, r |-> (2 * waste) % total],
               total), total), total).q \in {2 * t - 1, 2 * t}
           \/ /\ PercentDigit(PercentDigit(PercentDigit(
                    [q |-> (2 * waste) \div total, r |-> (2 * waste) % total],
                    total), total), total) = [q |-> 2 * t + 1, r |-> 0]}

\* C15, amended: for every material item the commercial lengths sum to at
\* least the required length, and waste_percentage is
\* (sum - required) / sum * 100 rounded to one decimal (within 0.05 of it),
\* never negative.
C15_WasteIsRoundedShare ==
    Finished =>
        \A m \in 1..Len(material_list) :
            /\ Supplied(material_list[m]) >= Required(material_list[m])
            /\ material_list[m].waste_percentage >= 0
            /\ Supplied(material_list[m]) > 0 =>
                  material_list[m].waste_percentage
                    \in NearestTenths(Supplied(material_list[m])
                                        - Required(material_list[m]),
                                      Supplied(material_list[m]))

\* several stocks, one of them longer than Lmax, and a rounded percentage
C15_Witness ==
    /\ Finished
    /\ \E m \in 1..Len(material_list) :
          /\ Len(material_list[m].commercial_lengths) > 1
          /\ \E k \in 1..Len(material_list[m].commercial_lengths) :
                material_list[m].commercial_lengths[k].commercial_length
                  > beam_data.max_bar_length_m
          /\ ~WastePercentage(Supplied(material_list[m]) - Required(material_list[m]),
                              Supplied(material_list[m])).exact

-----------------------------------------------------------------------------
(* modules/stirrups/utils.py: confined and unconfined segments             *)
(* a segment is a pair <<start, end>> on an integer grid                   *)

GridLength == 3
ZoneCounts == 0..1
SpliceCounts == 0..2
ZoneKinds == {"after_face", "inside_support", "no_support_index"}

\* (min(a, b), max(a, b)) for every pair, those with end > start kept
Sanitized(segments) ==
    SelectSeq([k \in 1..Len(segments) |->
                  <<Min2(segments[k][1], segments[k][2]),
                    Max2(segments[k][1], segments[k][2])>>],
              LAMBDA seg : seg[2] > seg[1])

\* sanitized.sort(key=start): stable insertion, ascending
RECURSIVE InsertSegment(_, _)
InsertSegment(sorted, seg) ==
    IF sorted = <<>> THEN <<seg>>
    ELSE IF Head(sorted)[1] <= seg[1]
         THEN <<Head(sorted)>> \o InsertSegment(Tail(sorted), seg)
    ELSE <<seg>> \o sorted

RECURSIVE SortSegments(_, _)
SortSegments(segments, acc) ==
    IF segments = <<>> THEN acc
    ELSE SortSegments(Tail(segments), InsertSegment(acc, Head(segments)))

\* the loop of merge_segments over sanitized[1:]
RECURSIVE MergeWalk(_, _, _, _)
MergeWalk(rest, current_start, current_end, merged) ==
    IF rest = <<>> THEN Append(merged, <<current_start, current_end>>)
    ELSE IF Head(rest)[1] <= current_end
         THEN MergeWalk(Tail(rest), current_start, Max2(current_end, Head(rest)[2]), merged)
    ELSE MergeWalk(Tail(rest), Head(rest)[1], Head(rest)[2],
                   Append(merged, <<current_start, current_end>>))

MergeSorted(sanitized) ==
    IF sanitized = <<>> THEN <<>>
    ELSE MergeWalk(Tail(sanitized), sanitized[1][1], sanitized[1][2], <<>>)

\* the segments sanitized and sorted, overlapping ones left as they are
MergeSegmentsUnmerged(segments) == SortSegments(Sanitized(segments), <<>>)

MergeSegments(segments) == MergeSorted(SortSegments(Sanitized(segments), <<>>))

\* the zones with a support index that are not the support itself
ConfiningZones(zones) ==
    SelectSeq(zones, LAMBDA zone : zone.kind = "after_face")

DeriveConfinedSegments(zones, lap_splices) ==
    MergeSegments([k \in 1..Len(ConfiningZones(zones)) |->
                      <<ConfiningZones(zones)[k].start_m, ConfiningZones(zones)[k].end_m>>]
                  \o lap_splices)

\* the loop of derive_unconfined_segments and the piece after the cursor
RECURSIVE UnconfinedWalk(_, _, _, _)
UnconfinedWalk(merged_confined, cursor, total_length, segments) ==
    IF merged_confined = <<>>
    THEN IF cursor < total_length THEN Append(segments, <<cursor, total_length>>)
         ELSE segments
    ELSE UnconfinedWalk(Tail(merged_confined), Max2(cursor, Head(merged_confined)[2]),
                        total_length,
                        IF Head(merged_confined)[1] > cursor
                        THEN Append(segments, <<cursor, Head(merged_confined)[1]>>)
                        ELSE segments)

DeriveUnconfinedSegments(total_length, confined_segments) ==
    IF total_length <= 0 THEN <<>>
    ELSE SelectSeq(UnconfinedWalk(MergeSegments(confined_segments), 0, total_length, <<>>),
                   LAMBDA seg : seg[2] > seg[1])

GridPairs == (0..GridLength) \X (0..GridLength)

ZoneInputs ==
    UNION {[1..n -> {[start_m |-> p[1], end_m |-> p[2], kind |-> k] :
                        p \in {q \in GridPairs : q[1] < q[2]}, k \in ZoneKinds}] :
             n \in ZoneCounts}

SpliceInputs == UNION {[1..n -> GridPairs] : n \in SpliceCounts}

DetailingIdle ==
    /\ input = None
    /\ pc = "idle"
    /\ beam_data = None
    /\ coordinates = None
    /\ continuous_bars = None
    /\ prohibited_zones = <<>>
    /\ top_bars = <<>>
    /\ bottom_bars = <<>>
    /\ joints = [top |-> <<>>, bottom |-> <<>>]
    /\ warnings = {}
    /\ payload = None

InitStirrups ==
    /\ DetailingIdle
    /\ lanes = None
    /\ ServiceIdle
    /\ stirrups \in [pc : {"confined"}, total_length : 1..GridLength,
                     prohibited_zones : ZoneInputs, lap_splices : SpliceInputs,
                     confined : {<<>>}, unconfined : {<<>>}]

DeriveConfined ==
    /\ stirrups.pc = "confined"
    /\ stirrups' = [stirrups EXCEPT
                      !.confined = DeriveConfinedSegments(stirrups.prohibited_zones,
                                                          stirrups.lap_splices),
                      !.pc = "unconfined"]
    /\ UNCHANGED <<detailing_vars, lanes, document, served, loaders, segmenting, iteration_count, job, cutting>>

DeriveUnconfined ==
    /\ stirrups.pc = "unconfined"
    /\ stirrups' = [stirrups EXCEPT
                      !.unconfined = DeriveUnconfinedSegments(stirrups.total_length,
                                                              stirrups.confined),
                      !.pc = "done"]
    /\ UNCHANGED <<detailing_vars, lanes, document, served, loaders, segmenting, iteration_count, job, cutting>>

NextStirrups == DeriveConfined \/ DeriveUnconfined

SpecStirrups == InitStirrups /\ [][NextStirrups]_vars

-----------------------------------------------------------------------------
(* C16                                                                     *)

\* the confined source intervals: the confining zones and the lap splices
ConfinedSources ==
    [k \in 1..Len(ConfiningZones(stirrups.prohibited_zones)) |->
        <<ConfiningZones(stirrups.prohibited_zones)[k].start_m,
          ConfiningZones(stirrups.prohibited_zones)[k].end_m>>]
    \o stirrups.lap_splices

SourcesWithinBeam ==
    \A k \in 1..Len(ConfinedSources) :
        /\ ConfinedSources[k][1] \in 0..stirrups.total_length
        /\ ConfinedSources[k][2] \in 0..stirrups.total_length

ZoneSegments == stirrups.confined \o stirrups.unconfined

\* C16: for total_length > 0 and confined source intervals inside
\* [0, total_length], the merged confined segments and the derived unconfined
\* segments have pairwise disjoint interiors and their union is exactly
\* [0, total_length].
C16_SegmentsPartitionTheBeam ==
    (stirrups # None /\ stirrups.pc = "done" /\ SourcesWithinBeam) =>
        /\ \A i, j \in 1..Len(ZoneSegments) :
              i # j => Max2(ZoneSegments[i][1], ZoneSegments[j][1])
                         >= Min2(ZoneSegments[i][2], ZoneSegments[j][2])
        /\ \A i \in 1..Len(ZoneSegments) :
              /\ 0 <= ZoneSegments[i][1]
              /\ ZoneSegments[i][1] < ZoneSegments[i][2]
              /\ ZoneSegments[i][2] <= stirrups.total_length
        /\ \A x \in 0..(stirrups.total_length - 1) :
              \E i \in 1..Len(ZoneSegments) :
                  ZoneSegments[i][1] <= x /\ x + 1 <= ZoneSegments[i][2]

\* overlapping sources were merged and both kinds of segment exist
C16_Witness ==
    /\ stirrups # None /\ stirrups.pc = "done" /\ SourcesWithinBeam
    /\ Len(ConfinedSources) = 3
    /\ Len(stirrups.confined) = 1
    /\ \E i, j \in 1..Len(ConfinedSources) :
          /\ i # j
          /\ Max2(ConfinedSources[i][1], ConfinedSources[j][1])
               < Min2(ConfinedSources[i][2], ConfinedSources[j][2])
    /\ Len(stirrups.unconfined) = 2

-----------------------------------------------------------------------------
(* modules/drawing/rebar_drawer.py: _prepare_segments and _assign_lanes    *)
(* bar lengths in 1e-7 m, drawing coordinates in 1e-4 mm (scale 1000);     *)
(* DrawingUnits.precision = 3, so coordinates are multiples of 1e-3 mm     *)

units_step == 10
lane_tolerance == 10
metre_key_step == 1000

BarCounts == 0..3
LaneDiameters == {5, 6, 8}
LaneCoordinates == {0, 4, 10, 20}

\* round(x / step) * step, half to even
RoundTo(x, step) ==
    IF 2 * (x % step) > step \/ (2 * (x % step) = step /\ (x \div step) % 2 = 1)
    THEN (x \div step + 1) * step
    ELSE (x \div step) * step

\* to_drawing_units
ToDrawingUnits(value_m) == RoundTo(value_m, units_step)

GroupKey(bar) ==
    <<bar.diameter, RoundTo(bar.start_m, metre_key_step),
      RoundTo(bar.end_m, metre_key_step), RoundTo(bar.length_m, metre_key_step),
      bar.hook_type>>

Accumulator(bar) ==
    [key |-> GroupKey(bar), diameter |-> bar.diameter,
     start_x |-> Min2(ToDrawingUnits(bar.start_m), ToDrawingUnits(bar.end_m)),
     end_x |-> Max2(ToDrawingUnits(bar.start_m), ToDrawingUnits(bar.end_m)),
     quantity |-> bar.quantity]

\* grouped: one accumulator per key in order of first appearance
RECURSIVE GroupBars(_, _)
GroupBars(bars, grouped) ==
    IF bars = <<>> THEN grouped
    ELSE IF \E g \in 1..Len(grouped) : grouped[g].key = GroupKey(Head(bars))
         THEN GroupBars(Tail(bars),
                  [g \in 1..Len(grouped) |->
                      IF grouped[g].key = GroupKey(Head(bars))
                      THEN [grouped[g] EXCEPT !.quantity = @ + Head(bars).quantity]
                      ELSE grouped[g]])
    ELSE GroupBars(Tail(bars), Append(grouped, Accumulator(Head(bars))))

\* (start_x, end_x) of a comes before or with that of b
StartsBefore(a, b) ==
    a.start_x < b.start_x \/ (a.start_x = b.start_x /\ a.end_x <= b.end_x)

\* sorted(..., key=(start_x, end_x)): stable insertion
RECURSIVE InsertByStart(_, _)
InsertByStart(sorted, item) ==
    IF sorted = <<>> THEN <<item>>
    ELSE IF StartsBefore(Head(sorted), item)
         THEN <<Head(sorted)>> \o InsertByStart(Tail(sorted), item)
    ELSE <<item>> \o sorted

RECURSIVE SortByStart(_, _)
SortByStart(items, acc) ==
    IF items = <<>> THEN acc ELSE SortByStart(Tail(items), InsertByStart(acc, Head(items)))

Enumerated(sorted) ==
    [idx \in 1..Len(sorted) |->
        [start_x |-> sorted[idx].start_x, end_x |-> sorted[idx].end_x, key |-> idx - 1,
         quantity |-> sorted[idx].quantity, diameter |-> sorted[idx].diameter]]

PrepareSegments(bars) == Enumerated(SortByStart(GroupBars(bars, <<>>), <<>>))

\* the first lane whenever there is one, whatever its end
FirstLane(lane_ends, item) == IF lane_ends = <<>> THEN 0 ELSE 1

\* the first lane whose end the item clears (1-based); 0 when none
FreeLane(lane_ends, item) ==
    IF \E idx \in 1..Len(lane_ends) : item.start_x >= lane_ends[idx] - lane_tolerance
    THEN CHOOSE idx \in 1..Len(lane_ends) :
             /\ item.start_x >= lane_ends[idx] - lane_tolerance
             /\ \A other \in 1..(idx - 1) :
                   ~(item.start_x >= lane_ends[other] - lane_tolerance)
    ELSE 0

RECURSIVE LaneWalk(_, _, _)
LaneStep(lane, items, lane_ends, assignments) ==
    IF lane # 0
    THEN LaneWalk(Tail(items), [lane_ends EXCEPT ![lane] = Head(items).end_x],
                  assignments @@ (Head(items).key :> lane - 1))
    ELSE LaneWalk(Tail(items), Append(lane_ends, Head(items).end_x),
                  assignments @@ (Head(items).key :> Len(lane_ends)))

LaneWalk(items, lane_ends, assignments) ==
    IF items = <<>> THEN assignments
    ELSE LaneStep(FreeLane(lane_ends, Head(items)), items, lane_ends, assignments)

\* _assign_lanes: key -> lane index
AssignLanes(segments) == LaneWalk(SortByStart(segments, <<>>), <<>>, <<>>)

LaneBars ==
    UNION {[1..n -> [diameter : LaneDiameters, start_m : LaneCoordinates,
                     end_m : LaneCoordinates, length_m : {10000000},
                     hook_type : {"135"}, quantity : {1}]] : n \in BarCounts}

InitLanes ==
    /\ DetailingIdle
    /\ stirrups = None
    /\ ServiceIdle
    /\ lanes \in [pc : {"prepare"}, bars : LaneBars, segments : {<<>>},
                  assignments : {<<>>}]

RebarPrepare ==
    /\ lanes.pc = "prepare"
    /\ lanes' = [lanes EXCEPT !.segments = PrepareSegments(lanes.bars), !.pc = "assign"]
    /\ UNCHANGED <<detailing_vars, stirrups, document, served, loaders, segmenting, iteration_count, job, cutting>>

\* _draw_group up to the lane assignment; nothing is drawn for no segments
RebarAssign ==
    /\ lanes.pc = "assign"
    /\ lanes' = [lanes EXCEPT
                   !.assignments = IF lanes.segments = <<>> THEN <<>>
                                   ELSE AssignLanes(lanes.segments),
                   !.pc = "done"]
    /\ UNCHANGED <<detailing_vars, stirrups, document, served, loaders, segmenting, iteration_count, job, cutting>>

NextLanes == RebarPrepare \/ RebarAssign

SpecLanes == InitLanes /\ [][NextLanes]_vars

-----------------------------------------------------------------------------
(* C17                                                                     *)

LaneOf(segment) == lanes.assignments[segment.key]

\* C17: after _assign_lanes, of any two segments in one lane the later one
\* (in order of start, then end) starts at or after the earlier one's end
\* minus the tolerance of 1e-3.
C17_LaneSegmentsDisjoint ==
    (lanes # None /\ lanes.pc = "done") =>
        \A i, j \in 1..Len(lanes.segments) :
            (i < j /\ LaneOf(lanes.segments[i]) = LaneOf(lanes.segments[j])) =>
                lanes.segments[j].start_x >= lanes.segments[i].end_x - lane_tolerance

\* three segments: two share a lane within the tolerance, one needs a second lane
C17_Witness ==
    /\ lanes # None /\ lanes.pc = "done"
    /\ Len(lanes.segments) = 3
    /\ \E i, j \in 1..3 :
          /\ i < j
          /\ LaneOf(lanes.segments[i]) = LaneOf(lanes.segments[j])
          /\ lanes.segments[j].start_x < lanes.segments[i].end_x
    /\ \E i \in 1..3 : LaneOf(lanes.segments[i]) = 1

-----------------------------------------------------------------------------
(* render_document (modules/drawing/drawing_service.py): the renderers     *)
(* append entities to the document one after the other.  A payload is     *)
(* kept by what decides which entities are drawn: the section height of    *)
(* each span (cm), the width of each support (cm), the position of each    *)
(* axis marker, and the number of coalesced bars of each face.             *)

SpanHeightsCm == {0, 45}
SupportWidths == {0, 30}
MarkerPositions == {0, 1}
ListLengths == 0..2
FaceSegmentCounts == 0..2

DrawingPayloads ==
    [spans : UNION {[1..n -> SpanHeightsCm] : n \in ListLengths},
     supports : UNION {[1..n -> SupportWidths] : n \in ListLengths},
     axis_markers : UNION {[1..n -> MarkerPositions] : n \in ListLengths},
     detailing_results :
         {None} \cup [top_bars : FaceSegmentCounts, bottom_bars : FaceSegmentCounts]]

\* the fields of the slots dataclass RenderContext: reading any other
\* attribute of the context raises AttributeError
RenderContextFields ==
    {"payload", "template", "space", "beam_height_mm", "cover_mm", "locale", "origin"}

HasAttribute(name) == name \in RenderContextFields

\* an entity, kept by the group it belongs to and its class
Entity(group, type) == [group |-> group, type |-> type]

\* items, n times over
Repeated(n, items) ==
    [i \in 1..(n * Len(items)) |-> items[((i - 1) % Len(items)) + 1]]

Appended(doc, entities) == [doc EXCEPT !.entities = @ \o entities]
Raising(doc) == [doc EXCEPT !.raised = TRUE]

\* BeamDrawingService._beam_height_mm, in mm at the unit scale of 1000
BeamHeightMm(p) ==
    IF p.spans = <<>> THEN 450
    ELSE 10 * Max2(p.spans[1], IF Len(p.spans) > 1 THEN p.spans[2] ELSE p.spans[1])

\* BeamRenderer.draw: outline and hatch, then _draw_supports (a rectangle per
\* support), then _draw_axis_markers (a line and a label per marker)
BeamRendererDraw(doc, p) ==
    IF doc.raised THEN doc
    ELSE Appended(doc,
             <<Entity("beam_outline", "PolylineEntity"),
               Entity("beam_outline", "HatchEntity")>>
             \o Repeated(Len(p.supports), <<Entity("supports", "PolylineEntity")>>)
             \o Repeated(Len(p.axis_markers),
                         <<Entity("axis_markers", "PolylineEntity"),
                           Entity("axis_markers", "TextEntity")>>))

\* RebarDrawer._draw_group: nothing for an empty face; the text offset reads
\* context.vertical_scale; each segment adds its line, then its label, whose
\* height reads context.text_height_mm
DrawGroup(doc, count) ==
    IF doc.raised \/ count = 0 THEN doc
    ELSE IF ~HasAttribute("vertical_scale") THEN Raising(doc)
    ELSE IF ~HasAttribute("text_height_mm")
         THEN Raising(Appended(doc, <<Entity("rebar_lanes", "LineEntity")>>))
    ELSE Appended(doc, Repeated(count, <<Entity("rebar_lanes", "LineEntity"),
                                         Entity("rebar_lanes", "TextEntity")>>))

\* RebarDrawer.draw: returns at once without detailing results; otherwise
\* _lane_spacing reads context.vertical_scale before anything is drawn
RebarDrawerDraw(doc, p) ==
    IF doc.raised \/ p.detailing_results = None THEN doc
    ELSE IF ~HasAttribute("vertical_scale") THEN Raising(doc)
    ELSE DrawGroup(DrawGroup(doc, p.detailing_results.top_bars),
                   p.detailing_results.bottom_bars)

\* supports that get a dimension: those of positive width
WideSupports(p) == {k \in 1..Len(p.supports) : p.supports[k] > 0}

\* _draw_axis_dimensions: one dimension per pair of neighbours of the sorted
\* markers that are a positive distance apart
AxisDimensions(p) ==
    IF Len(p.axis_markers) < 2 THEN 0
    ELSE Cardinality({p.axis_markers[k] : k \in 1..Len(p.axis_markers)}) - 1

\* DimensionRenderer.draw: the total length, each span, each support of
\* positive width, the axis spacings; the first DimensionEntity already
\* reads context.text_height_mm
DimensionRendererDraw(doc, p) ==
    IF doc.raised THEN doc
    ELSE IF ~HasAttribute("text_height_mm") THEN Raising(doc)
    ELSE Appended(doc,
             Repeated(1 + Len(p.spans) + Cardinality(WideSupports(p)) + AxisDimensions(p),
                      <<Entity("dimensions", "DimensionEntity")>>))

\* _draw_inner_outline draws when width (2400) and height exceed twice the
\* inner offset (70); the height is the beam height, or 90 when that is 0
InnerOutline(p) ==
    LET height == IF BeamHeightMm(p) # 0 THEN BeamHeightMm(p) ELSE 90
    IN IF 2400 <= 2 * 70 \/ height <= 2 * 70 THEN <<>>
       ELSE <<Entity("title_block", "PolylineEntity")>>

\* TitleBlockRenderer.draw: the outline, the inner outline, then four text
\* lines whose height reads context.text_height_mm
TitleBlockRendererDraw(doc, p) ==
    IF doc.raised THEN doc
    ELSE LET outlined == Appended(doc, <<Entity("title_block", "PolylineEntity")>>
                                       \o InnerOutline(p))
         IN IF ~HasAttribute("text_height_mm") THEN Raising(outlined)
            ELSE Appended(outlined, Repeated(4, <<Entity("title_block", "TextEntity")>>))

\* the four draw calls of render_document, in the order of the code; an
\* exception of one of them ends the call
RenderedDocument(p) ==
    TitleBlockRendererDraw(
        DimensionRendererDraw(
            RebarDrawerDraw(
                BeamRendererDraw([entities |-> <<>>, raised |-> FALSE], p), p), p), p)

InitRender ==
    /\ DetailingIdle
    /\ stirrups = None
    /\ lanes = None
    /\ served = <<>>
    /\ segmenting = None
    /\ iteration_count = 0
    /\ job = None /\ cutting = None
    /\ loaders = None
    /\ document \in [pc : {"render"}, payload : DrawingPayloads, entities : {<<>>}]

\* BeamDrawingService.render_document
RenderDocument ==
    /\ document # None
    /\ document.pc = "render"
    /\ LET doc == RenderedDocument(document.payload)
       IN document' = [document EXCEPT
                          !.pc = IF doc.raised THEN "raised" ELSE "returned",
                          !.entities = doc.entities]
    /\ UNCHANGED <<detailing_vars, stirrups, lanes, served, loaders, segmenting, iteration_count, job, cutting>>

NextRender == RenderDocument

SpecRender == InitRender /\ [][NextRender]_vars

\* the groups of the drawing, in the order in which they are to appear
GroupOrder ==
    <<"beam_outline", "supports", "axis_markers", "rebar_lanes", "dimensions",
      "title_block", "right_info_box", "section_schematic">>

GroupRank(group) == CHOOSE k \in 1..Len(GroupOrder) : GroupOrder[k] = group

\* a payload with at least one support, one axis marker and one bar, so that
\* every group has something to draw
EveryGroupHasContent(p) ==
    /\ p.supports # <<>>
    /\ p.axis_markers # <<>>
    /\ p.detailing_results # None
    /\ p.detailing_results.top_bars + p.detailing_results.bottom_bars > 0

\* C18: once render_document has ended on a payload that has content for
\* every group, it has returned a document in which every one of the eight
\* groups (beam outline, supports, axis markers, rebar lanes, dimensions,
\* title block, right info box, section schematic) has an entity, and every
\* entity of an earlier group comes before every entity of a later group.
C18_GroupsRenderedInOrder ==
    (/\ document # None
     /\ document.pc # "render"
     /\ EveryGroupHasContent(document.payload))
    => /\ document.pc = "returned"
       /\ \A k \in 1..Len(GroupOrder) :
              \E i \in 1..Len(document.entities) :
                  document.entities[i].group = GroupOrder[k]
       /\ \A i, j \in 1..Len(document.entities) :
              i < j => GroupRank(document.entities[i].group)
                           <= GroupRank(document.entities[j].group)

-----------------------------------------------------------------------------
(* Successive calls of compute_detailing on the one BeamDetailingService   *)
(* instance of the routes module.  The attributes of the instance are set  *)
(* in __init__ and never assigned again, so they stay the definitions used *)
(* by the steps above.  The variables of the finished call are left as     *)
(* they are when the next call starts: nothing the next call does may      *)
(* depend on them.                                                         *)

MaxCalls == 3

\* the requests sent to the shared instance: 4 m spans, as many #6 bars on
\* both faces (none at all included), 6 m stock
CallRequests ==
    {r \in Requests :
        /\ \A k \in 1..Len(r.span_geometries) :
               r.span_geometries[k].clear_span_between_supports_m = 400000
        /\ r.top_bars_config[1].diameter = 6
        /\ r.bottom_bars_config[1].diameter = 6
        /\ r.top_bars_config[1].quantity = r.bottom_bars_config[1].quantity
        /\ r.max_rebar_length_m = "6m"}

\* DetailingResults of an instance that kept a running bar count
ResultsCountingAcrossCalls ==
    LET earlier == {k \in 1..Len(served) : served[k].response.success}
        last == CHOOSE k \in earlier : \A other \in earlier : other <= k
    IN [top_bars |-> top_bars, bottom_bars |-> bottom_bars, joints |-> joints,
        prohibited_zones |-> prohibited_zones, material_list |-> material_list,
        continuous_bars |-> continuous_bars, warnings |-> warnings,
        validation_passed |-> warnings = {},
        total_bars_count |-> Len(top_bars) + Len(bottom_bars)
            + (IF earlier = {} THEN 0
               ELSE served[last].response.results.total_bars_count)]

\* DetailingResults as compute_detailing assembles it (step 12)
Results ==
    [top_bars |-> top_bars, bottom_bars |-> bottom_bars, joints |-> joints,
     prohibited_zones |-> prohibited_zones, material_list |-> material_list,
     continuous_bars |-> continuous_bars, warnings |-> warnings,
     validation_passed |-> warnings = {},
     total_bars_count |-> Len(top_bars) + Len(bottom_bars)]

\* DetailingResponse without computation_time_ms, which is wall-clock time
Response ==
    IF pc = "invalid" THEN [success |-> FALSE, results |-> None]
    ELSE [success |-> TRUE, results |-> Results]

InitCalls ==
    /\ Init
    /\ input \in CallRequests

\* the route hands the response back to its caller
Return ==
    /\ pc \in {"done", "invalid"}
    /\ Len(served) < MaxCalls
    /\ served' = Append(served, [request |-> input, response |-> Response])
    /\ pc' = "returned"
    /\ UNCHANGED <<input, beam_data, coordinates, continuous_bars, prohibited_zones,
                   top_bars, bottom_bars, joints, warnings, payload>>
    /\ UNCHANGED <<stirrups, lanes, document, loaders, segmenting, iteration_count, job, cutting>>

\* the next request reaches detailing_service.compute_detailing
Call ==
    /\ pc = "returned"
    /\ Len(served) < MaxCalls
    /\ input' \in CallRequests
    /\ pc' = "preprocess"
    /\ UNCHANGED <<beam_data, coordinates, continuous_bars, prohibited_zones,
                   top_bars, bottom_bars, joints, warnings, payload>>
    /\ UNCHANGED module_vars

NextCalls ==
    \/ Preprocess
    \/ Coordinates
    \/ Continuous
    \/ Zones
    \/ DetailTop
    \/ DetailBottom
    \/ Coordinate
    \/ FinishTop
    \/ FinishBottom
    \/ Validate
    \/ Return
    \/ Call

SpecCalls == InitCalls /\ [][NextCalls]_vars

-----------------------------------------------------------------------------
(* The memoized loaders: _load_manifest (templates.py) and _load_template  *)
(* (section_template.py), both wrapped in functools.lru_cache.  The        *)
(* wrapper looks the key up, and on a miss runs the wrapped function       *)
(* without holding any lock, then stores what that run returned and hands  *)
(* the same object to its caller.  Threads are the workers that serve the  *)
(* synchronous routes.                                                     *)

MaxThreads == 3
Threads == 1..MaxThreads
Loaders == {"manifest", "section_template"}
FileStates == {"present", "missing"}

\* what a run of the wrapped function gives: the parsed file, the default
\* template map when the manifest is missing (FileNotFoundError is caught),
\* SectionTemplateError when the DXF is missing
Loaded(loader, file, run) ==
    IF file = "present" THEN [content |-> "parsed", run |-> run]
    ELSE IF loader = "manifest" THEN [content |-> "default", run |-> run]
    ELSE None

InitLoaders ==
    /\ DetailingIdle
    /\ stirrups = None
    /\ lanes = None
    /\ document = None
    /\ served = <<>>
    /\ segmenting = None
    /\ iteration_count = 0
    /\ job = None /\ cutting = None
    /\ loaders \in [loader : Loaders, file : FileStates, cache : {None},
                    runs : {0}, reads : {0},
                    thread : {[t \in Threads |-> [pc |-> "call", result |-> None]]}]

\* get_template_config / get_section_template: the cache lookup of the wrapper
CacheLookup(t) ==
    /\ loaders # None
    /\ loaders.thread[t].pc = "call"
    /\ loaders' = IF loaders.cache # None
                  THEN [loaders EXCEPT !.thread[t] =
                            [pc |-> "returned", result |-> loaders.cache]]
                  ELSE [loaders EXCEPT !.thread[t].pc = "loading"]
    /\ UNCHANGED <<detailing_vars, stirrups, lanes, document, served, segmenting, iteration_count, job, cutting>>

\* the wrapped function runs to its end and the wrapper stores its result,
\* unless another thread stored one in the meantime; an exception is not
\* stored
LoadAndStore(t) ==
    /\ loaders # None
    /\ loaders.thread[t].pc = "loading"
    /\ LET run == loaders.runs + 1
           value == Loaded(loaders.loader, loaders.file, run)
       IN loaders' =
              [loaders EXCEPT
                  !.runs = run,
                  !.reads = IF loaders.file = "present" THEN @ + 1 ELSE @,
                  !.cache = IF @ = None THEN value ELSE @,
                  !.thread[t] = IF value = None
                                THEN [pc |-> "raised", result |-> None]
                                ELSE [pc |-> "returned", result |-> value]]
    /\ UNCHANGED <<detailing_vars, stirrups, lanes, document, served, segmenting, iteration_count, job, cutting>>

NextLoaders == \E t \in Threads : CacheLookup(t) \/ LoadAndStore(t)

SpecLoaders == InitLoaders /\ [][NextLoaders]_vars

\* C20: under any interleaving of the calls, the file behind a loader is
\* read and parsed at most once, exactly once as soon as a call has returned
\* from a present file, and all calls that returned got the same value.
C20_LoadedOnce ==
    loaders # None =>
        /\ loaders.reads <= 1
        /\ (/\ loaders.file = "present"
            /\ \E t \in Threads : loaders.thread[t].pc = "returned")
           => loaders.reads = 1
        /\ \A t, u \in Threads :
               (loaders.thread[t].pc = "returned" /\ loaders.thread[u].pc = "returned")
                   => loaders.thread[t].result.content = loaders.thread[u].result.content

-----------------------------------------------------------------------------
(* The zone calculator on its own: steps 1 to 4 of compute_detailing over  *)
(* geometries with supports of any width (none, 30 cm, 3 m) and spans of   *)
(* 5 mm, 1 m and 4 m, under sections of default and of 60 cm height.       *)

ZoneSpanLengths == {500, 100000, 400000}
ZoneSupportWidthsCm == {0, 30, 300}
ZoneSectionHeightsCm == {0, 60}

ZoneRequests ==
    UNION {
      {[span_geometries |->
            [k \in 1..n |-> [clear_span_between_supports_m |-> l[k],
                             section_height_cm |-> h]],
        axis_supports |-> [i \in 1..(n + 1) |-> [support_width_cm |-> w[i]]],
        top_bars_config |-> <<[diameter |-> 6, quantity |-> 2]>>,
        bottom_bars_config |-> <<[diameter |-> 6, quantity |-> 2]>>,
        cover_cm |-> 4, max_rebar_length_m |-> "12m", hook_type |-> "135",
        energy_dissipation_class |-> "DES"] :
          l \in [1..n -> ZoneSpanLengths], w \in [1..(n + 1) -> ZoneSupportWidthsCm],
          h \in ZoneSectionHeightsCm} : n \in 1..MaxSpans}

InitZones ==
    /\ input \in ZoneRequests
    /\ pc = "preprocess"
    /\ beam_data = None
    /\ coordinates = None
    /\ continuous_bars = None
    /\ prohibited_zones = <<>>
    /\ top_bars = <<>>
    /\ bottom_bars = <<>>
    /\ joints = [top |-> <<>>, bottom |-> <<>>]
    /\ warnings = {}
    /\ payload = None
    /\ ModulesIdle

NextZones == Preprocess \/ Coordinates \/ Continuous \/ Zones

SpecZones == InitZones /\ [][NextZones]_vars

\* _calculate_prohibited_zones has run
Zoned == pc \notin {"idle", "preprocess", "coordinates", "continuous", "zones", "invalid"}

\* C21: the zone list is ordered by start_m, every zone satisfies
\* 0 <= start_m < end_m <= total_length, and no two zones of the same kind
\* overlap with positive length.
C21_ZonesOrderedBoundedDisjoint ==
    Zoned =>
        /\ \A i \in 1..(Len(prohibited_zones) - 1) :
               prohibited_zones[i].start_m <= prohibited_zones[i + 1].start_m
        /\ \A i \in 1..Len(prohibited_zones) :
               /\ 0 <= prohibited_zones[i].start_m
               /\ prohibited_zones[i].start_m < prohibited_zones[i].end_m
               /\ prohibited_zones[i].end_m <= coordinates.total_length
        /\ \A i, j \in 1..Len(prohibited_zones) :
               (i # j /\ prohibited_zones[i].kind = prohibited_zones[j].kind)
                   => ~Intersect(prohibited_zones[i].start_m, prohibited_zones[i].end_m,
                                 prohibited_zones[j].start_m, prohibited_zones[j].end_m)

\* the zones the rule asks for at the i-th support: D = max(2d, w/2), the
\* span that follows is the i-th, the span that precedes the (i-1)-th
ExpectedZones(i) ==
    LET face == coordinates.faces[i]
        x == face.x
        w == face.width
        D == Max2(2 * beam_data.effective_depth_m, w \div 2)
        spans == coordinates.spans
        after_end == Min2(x + w + D, spans[i].start + spans[i].length \div 2)
        before_start == Max2(x - D, spans[i - 1].start + spans[i - 1].length \div 2)
    IN (IF w > 0
        THEN {[kind |-> "inside_support", start_m |-> x, end_m |-> x + w,
               support_index |-> i - 1]}
        ELSE {})
       \cup (IF i < Len(coordinates.faces) /\ after_end > x + w
             THEN {[kind |-> "after_face", start_m |-> x + w, end_m |-> after_end,
                    support_index |-> i - 1]}
             ELSE {})
       \cup (IF i > 1 /\ before_start < x
             THEN {[kind |-> "before_face", start_m |-> before_start, end_m |-> x,
                    support_index |-> i - 1]}
             ELSE {})

\* C22: the calculator emits, for every support, the inside_support zone iff
\* the width is positive, the after_face zone of a non-last support and the
\* before_face zone of a non-first support whenever the interval is not
\* empty, each clipped at the centre of the adjacent span, and nothing else.
C22_ZonesAreTheExpectedOnes ==
    Zoned =>
        /\ {prohibited_zones[k] : k \in 1..Len(prohibited_zones)}
               = UNION {ExpectedZones(i) : i \in 1..Len(coordinates.faces)}
        /\ Len(prohibited_zones)
               = Cardinality(UNION {ExpectedZones(i) : i \in 1..Len(coordinates.faces)})

-----------------------------------------------------------------------------
(* Faces with several marks: a two-span beam (4 m spans, 30 cm supports,   *)
(* 6 m stock) whose two faces carry the same configuration of up to        *)
(* MaxMarks entries, marks #6, #9 and #10, 1 or 7 bars each; an entry      *)
(* may repeat a mark.                                                      *)

MaxMarks == 3
MarkDiameters == {6, 9, 10}
MarkQuantities == {1, 7}

MarkConfigs ==
    UNION {[1..n -> [diameter : MarkDiameters, quantity : MarkQuantities]] :
              n \in 0..MaxMarks}

MarkRequests ==
    {[span_geometries |->
          [k \in 1..2 |-> [clear_span_between_supports_m |-> 400000,
                           section_height_cm |-> 0]],
      axis_supports |-> [i \in 1..3 |-> [support_width_cm |-> 30]],
      top_bars_config |-> c, bottom_bars_config |-> c,
      cover_cm |-> 4, max_rebar_length_m |-> "6m", hook_type |-> "135",
      energy_dissipation_class |-> "DES"] : c \in MarkConfigs}

InitMarks ==
    /\ input \in MarkRequests
    /\ pc = "preprocess"
    /\ beam_data = None
    /\ coordinates = None
    /\ continuous_bars = None
    /\ prohibited_zones = <<>>
    /\ top_bars = <<>>
    /\ bottom_bars = <<>>
    /\ joints = [top |-> <<>>, bottom |-> <<>>]
    /\ warnings = {}
    /\ payload = None
    /\ ModulesIdle

SpecMarks == InitMarks /\ [][Next]_vars

\* _identify_continuous_bars has run
Selected == pc \notin {"idle", "preprocess", "coordinates", "continuous", "invalid"}
\* both planners have run
Planned == pc \notin {"idle", "preprocess", "coordinates", "continuous", "zones",
                      "top", "bottom", "invalid"}

\* the expanded bars of a face and the quantity configured for a mark
ExpandedBars(face) == IF face = "top" THEN beam_data.top_bars ELSE beam_data.bottom_bars
FaceConfig(face) ==
    IF face = "top" THEN input.top_bars_config ELSE input.bottom_bars_config
ConfiguredQuantity(face, d) ==
    SumSeq([k \in 1..Len(FaceConfig(face)) |->
               IF FaceConfig(face)[k].diameter = d THEN FaceConfig(face)[k].quantity
               ELSE 0])
FaceMarks(face) == {ExpandedBars(face)[k] : k \in 1..Len(ExpandedBars(face))}
\* the marks with fewer than two larger marks on the face
LargestTwo(face) ==
    {d \in FaceMarks(face) : Cardinality({e \in FaceMarks(face) : e > d}) < 2}

\* planned bars of a mark: continuous bars are counted once, whatever the
\* number of segments they were cut into
ContinuousPlanned(face, d) ==
    Cardinality({<<FaceBars(face)[k].id[3], FaceBars(face)[k].id[4]>> :
                    k \in {n \in 1..Len(FaceBars(face)) :
                              /\ FaceBars(face)[n].diameter = d
                              /\ FaceBars(face)[n].type = "continuous"}})
OtherPlanned(face, d) ==
    Cardinality({k \in 1..Len(FaceBars(face)) :
                    /\ FaceBars(face)[k].diameter = d
                    /\ FaceBars(face)[k].type # "continuous"})

AnchoredPlanned(face, d) ==
    Cardinality({k \in 1..Len(FaceBars(face)) :
                    /\ FaceBars(face)[k].diameter = d
                    /\ FaceBars(face)[k].type = "support_anchored"})

\* C24: for every mark of the bottom face, of which total_count bars are
\* configured, the continuous bars and the support_anchored bars the planner
\* emits are together at least ceil(total_count / 3).
C24_ThirdOfBottomBarsEnterSupports ==
    Planned =>
        \A d \in FaceMarks("bottom") :
            ContinuousPlanned("bottom", d) + AnchoredPlanned("bottom", d)
                >= CeilDiv(Count(beam_data.bottom_bars, d), 3)


-----------------------------------------------------------------------------
(* The first joint of a split bottom bar and its corridor                  *)

\* the arguments _detail_bottom_bars passes to _split_bar_by_max_length for
\* the continuous bar number i + 1 of mark d
BottomSplitContext(d, i) ==
    SplitContext(RebarDetail(<<"bottom", d, "C", i + 1, 0>>, d, "bottom", "continuous",
                             0, coordinates.total_length, beam_data.hook_type, <<>>,
                             DevelopmentLength(beam_data, d)),
                 beam_data.max_bar_length_m, SpliceLength(beam_data, d),
                 prohibited_zones, GetSingleHookLength(d, beam_data.hook_type),
                 beam_data.edge_cover_m, coordinates.total_length, TRUE,
                 offset_ratio_groups[(i % 3) + 1])

\* the bar goes through _split_bottom_bar_strategy
BottomBarIsSplit(c) ==
    /\ c.max_length > 0 /\ c.bar.length_m > c.max_length
    /\ c.splice_length > 0 /\ c.splice_length < c.max_length

\* corridor_target of the first iteration; -1 for None
FirstCorridorTarget(c) ==
    BottomCorridorTarget(c, c.bar.start_m, 1, BottomCandidateEnd(c, c.bar.start_m, 1))

\* the joints _split_bottom_bar_strategy returns
BottomJointsOf(c) == BottomLoop(c, c.bar.start_m, 1, 0, <<>>, <<>>).joints

\* the continuous bottom bars whose first joint was sent to the corridor
DirectedBottomBars ==
    {b \in {<<d, i>> : d \in Diameters, i \in 0..3} :
        /\ b[2] < ContinuousCount(continuous_bars.bottom, b[1])
        /\ BottomBarIsSplit(BottomSplitContext(b[1], b[2]))
        /\ FirstCorridorTarget(BottomSplitContext(b[1], b[2])) # -1
        /\ BottomJointsOf(BottomSplitContext(b[1], b[2])) # <<>>}

\* the corridor: from the end of the zone before the next "antes de" zone to
\* the start of that zone
CorridorOf(c) ==
    LET bz == FindNextBeforeZone(c.bar.start_m, c.zones)
    IN [start |-> FindZoneEndBefore(c.zones[bz].start_m, c.zones),
        end |-> c.zones[bz].start_m]

\* C25: when _target_bottom_corridor_end returns a target for the first piece
\* of a split continuous bottom bar, the first joint of the bar, which the
\* bottom face holds once the bottom planner has run, lies inside the
\* corridor between the previous zone end and the next "antes de" zone start,
\* and meets no prohibited zone.
C25_DirectedJointInsideCorridor ==
    pc = "coordinate" =>
        \A b \in DirectedBottomBars :
            LET c == BottomSplitContext(b[1], b[2])
                joint == BottomJointsOf(c)[1]
            IN /\ \E k \in 1..Len(joints.bottom) : joints.bottom[k] = joint
               /\ CorridorOf(c).start <= joint.start
               /\ joint.end <= CorridorOf(c).end
               /\ ~OverlapsProhibitedZone(joint.start, joint.end, prohibited_zones)


-----------------------------------------------------------------------------
(* The coordinator and the joints it moves                                 *)

\* the coordinator runs in this step
CoordinatorStep == pc = "coordinate" /\ pc' = "finish_top"

\* the centres of two splices are 1.5 * max(length) apart or more
ClearOf(splice, other) ==
    ~TooClose(SpliceCenter(splice), SpliceLen(splice),
              [center |-> SpliceCenter(other), length |-> SpliceLen(other)], 15)

\* joint k of the bottom face is clear of every top splice and of every other
\* bottom joint, wherever the coordinator leaves that one
NoRealConflict(k, before, after) ==
    /\ \A t \in 1..Len(joints.top) : ClearOf(before[k], joints.top[t])
    /\ \A o \in 1..Len(before) :
          o # k => ClearOf(before[k], before[o]) /\ ClearOf(before[k], after[o])

\* C26: the coordinator moves a bottom splice only on a real conflict: a
\* bottom joint whose centre is 1.5 * max(length) or more from the centre of
\* every top splice and of every other bottom joint keeps start, end and
\* length and gets no adjusted tag, also when two segments record it.
C26_ClearJointsStay ==
    [][CoordinatorStep =>
          \A k \in 1..Len(joints.bottom) :
              NoRealConflict(k, joints.bottom, joints'.bottom) =>
                  joints'.bottom[k] = joints.bottom[k]]_vars


\* the visits of the coordinator's loops over the bottom bars (b) and their
\* splices (k), in order: the joint visited, existing_splices as the visit
\* finds it, whether the visit moves the joint, and the joint as it leaves it
RECURSIVE CoordinateVisits(_, _, _, _, _, _, _)

VisitOf(bars, zones, beam_length, b, k, ji, existing_splices, r) ==
    <<[joint |-> ji, existing |-> existing_splices, adjusted |-> r.adjusted,
       splice |-> r.joints[ji]]>>
    \o CoordinateVisits(bars, r.joints, r.existing, zones, beam_length, b, k + 1)

CoordinateVisits(bars, jts, existing_splices, zones, beam_length, b, k) ==
    IF b > Len(bars) THEN <<>>
    ELSE IF k > Len(bars[b].splices)
    THEN CoordinateVisits(bars, jts, existing_splices, zones, beam_length, b + 1, 1)
    ELSE VisitOf(bars, zones, beam_length, b, k, bars[b].splices[k], existing_splices,
                 CoordinateSplice(jts, bars[b].splices[k], existing_splices, zones,
                                  beam_length))

\* the visits of the call the Coordinate step makes
Visits ==
    IF bottom_bars = <<>> \/ coordinates.total_length <= 0 THEN <<>>
    ELSE CoordinateVisits(bottom_bars, joints.bottom,
                          CollectSplices(top_bars, joints.top, 1), prohibited_zones,
                          coordinates.total_length, 1, 1)

\* the last visit that moved joint k; 0 when none did
LastMove(visits, k) ==
    LET moves == {v \in 1..Len(visits) : visits[v].joint = k /\ visits[v].adjusted}
    IN IF moves = {} THEN 0 ELSE CHOOSE v \in moves : \A other \in moves : other <= v

\* a moved splice: inside the beam, off the zones, 1.2 * max(length) or more
\* from the centre of every splice accepted before the move
WellRelocated(splice, existing_splices) ==
    /\ 2 * SpliceCenter(splice) >= splice.length
    /\ 2 * SpliceCenter(splice) <= 2 * coordinates.total_length - splice.length
    /\ ~OverlapsProhibitedZone(splice.start, splice.end, prohibited_zones)
    /\ ~HasConflict(SpliceCenter(splice), splice.length, existing_splices, 12)

\* start and end of every bar
BarEnds(bars) == [i \in 1..Len(bars) |-> <<bars[i].start_m, bars[i].end_m>>]

\* C27: every splice the coordinator tags adjusted ends at a centre c with
\* L/2 <= c <= total - L/2, its window [c - L/2, c + L/2] meets no prohibited
\* zone, and c is 1.2 * max(L, L') or more from the centre of every splice,
\* top or bottom, accepted before the move; the coordinator leaves the top
\* bars, the top splices and every bar's start and end as they were.
C27_RelocatedSplicesAreClear ==
    [][CoordinatorStep =>
          /\ \A k \in 1..Len(joints'.bottom) :
                joints'.bottom[k].adjusted =>
                    /\ LastMove(Visits, k) # 0
                    /\ joints'.bottom[k] = Visits[LastMove(Visits, k)].splice
                    /\ joints'.bottom[k].start
                         = SpliceCenter(joints'.bottom[k]) - joints'.bottom[k].length \div 2
                    /\ joints'.bottom[k].end
                         = SpliceCenter(joints'.bottom[k]) + joints'.bottom[k].length \div 2
                    /\ WellRelocated(joints'.bottom[k],
                                     Visits[LastMove(Visits, k)].existing)
          /\ top_bars' = top_bars
          /\ joints'.top = joints.top
          /\ BarEnds(bottom_bars') = BarEnds(bottom_bars)]_vars

\* the coordinator has moved a bottom splice away from a top splice
C27_Witness ==
    /\ pc = "finish_top"
    /\ joints.top # <<>>
    /\ \E k \in 1..Len(joints.bottom) :
          /\ joints.bottom[k].adjusted
          /\ \E t \in 1..Len(joints.top) :
                TooClose(joints.bottom[k].original_center, joints.bottom[k].length,
                         [center |-> SpliceCenter(joints.top[t]),
                          length |-> SpliceLen(joints.top[t])], 15)


-----------------------------------------------------------------------------
(* The planner's loops, iteration by iteration                             *)

LoopSpanLengths == {400000, 1150000}
LoopHookTypes == {"90", "135"}

\* two bars #6 on each face; on 1 m stock a lap of 0.78 m leaves 0.22 m of
\* progress per piece, and a 90 degree hook on the last piece leaves none
LoopRequests(stocks) ==
    {[span_geometries |->
          [k \in 1..Len(g) |-> [clear_span_between_supports_m |-> g[k],
                                section_height_cm |-> 0]],
      axis_supports |-> [i \in 1..Len(g) + 1 |-> [support_width_cm |-> 30]],
      top_bars_config |-> <<[diameter |-> 6, quantity |-> 2]>>,
      bottom_bars_config |-> <<[diameter |-> 6, quantity |-> 2]>>,
      cover_cm |-> 4, max_rebar_length_m |-> m, hook_type |-> h,
      energy_dissipation_class |-> "DES"] :
        g \in UNION {[1..n -> LoopSpanLengths] : n \in 1..MaxSpans},
        m \in stocks, h \in LoopHookTypes}

\* the arguments the planner of the face passes to _split_bar_by_max_length
\* for the continuous bar number i + 1 of mark d
SplitCallContext(data, coords, zones, face, d, i) ==
    SplitContext(RebarDetail(<<face, d, "C", i + 1, 0>>, d, face, "continuous",
                             0, coords.total_length, data.hook_type, <<>>,
                             DevelopmentLength(data, d)),
                 data.max_bar_length_m, SpliceLength(data, d), zones,
                 GetSingleHookLength(d, data.hook_type), data.edge_cover_m,
                 coords.total_length, face = "bottom",
                 IF face = "bottom" THEN offset_ratio_groups[(i % 3) + 1] ELSE 0)

RequestContext(request, face, d, i) ==
    SplitCallContext(PreprocessData(request), CalculateCoordinates(request),
                     CalculateProhibitedZones(CalculateCoordinates(request),
                                              PreprocessData(request)),
                     face, d, i)

\* the arguments of the call under way
SegmentingContext == segmenting.context

\* candidate_end, is_last_segment and needs_zone_adjustment of the iteration
\* when it reaches the zone adjustment
TopIterationCandidate(c, candidate_end) ==
    Candidate(candidate_end, candidate_end >= c.bar.end_m - tolerance, TRUE)

BottomAdjustedCandidate(c, current_start, piece_index, cand) ==
    BottomSafeStep(c, current_start, cand,
        piece_index = 1 /\ ~cand.is_last_segment /\ cand.needs_zone_adjustment,
        OverlapsProhibitedZone(Max2(c.bar.start_m, cand.end - c.splice_length),
                               cand.end, c.zones))

IterationCandidate(face, c, current_start, piece_index) ==
    IF face = "top"
    THEN TopIterationCandidate(c,
             TopPreferredEnd(c, current_start,
                 TopCandidateEnd(c, current_start, piece_index),
                 Max2(c.bar.start_m,
                      TopCandidateEnd(c, current_start, piece_index) - c.splice_length)))
    ELSE BottomAdjustedCandidate(c, current_start, piece_index,
             BottomCorridorEnd(c, BottomCandidateEnd(c, current_start, piece_index),
                 BottomCorridorTarget(c, current_start, piece_index,
                     BottomCandidateEnd(c, current_start, piece_index))))

\* the iteration calls _adjust_segment_end_for_splice_zones
Adjusts(cand) == ~cand.is_last_segment /\ cand.needs_zone_adjustment

\* the attempts of that call; 0 when the iteration does not call it
IterationAttempts(c, current_start, cand) ==
    IF Adjusts(cand)
    THEN AdjustWalk(current_start, cand.end, c.splice_length, c.zones, cand.end,
                    0).attempts
    ELSE 0

\* segment_end of the iteration
IterationEnd(face, c, current_start, cand) ==
    IF face = "top" THEN TopSegmentEnd(c, current_start, cand.end)
    ELSE BottomSegmentEnd(c, current_start, cand)

\* the loop's variables after the iteration
Iterated(c, s, attempts, segment_end) ==
    IF c.bar.end_m - s.current_start <= 0 \/ segment_end - s.current_start <= 0
    THEN [s EXCEPT !.pc = "returned", !.attempts = attempts]
    ELSE IF segment_end >= c.bar.end_m
    THEN [s EXCEPT !.pc = "returned", !.attempts = attempts,
                   !.segments = @ + 1, !.last_end = segment_end]
    ELSE [s EXCEPT !.attempts = attempts,
                   !.segments = @ + 1, !.last_end = segment_end,
                   !.piece_index = @ + 1,
                   !.current_start = Max2(c.bar.start_m, segment_end - c.splice_length)]

IterationOf(c, s, cand) ==
    Iterated(c, s, IterationAttempts(c, s.current_start, cand),
             IterationEnd(s.face, c, s.current_start, cand))

\* the call is at the head of its while loop
Looping == segmenting # None /\ segmenting.pc = "loop"

\* one iteration of the while loop of _split_top_bar_strategy or
\* _split_bottom_bar_strategy
Iterate ==
    /\ Looping
    /\ LoopContinues(SegmentingContext, segmenting.current_start, iteration_count)
    /\ iteration_count' = iteration_count + 1
    /\ segmenting' =
           IterationOf(SegmentingContext, segmenting,
                       IterationCandidate(segmenting.face, SegmentingContext,
                                          segmenting.current_start,
                                          segmenting.piece_index))
    /\ UNCHANGED <<detailing_vars, stirrups, lanes, document, served, loaders, job, cutting>>

\* the loop condition fails and the function returns its segments
ReturnSegments ==
    /\ Looping
    /\ ~LoopContinues(SegmentingContext, segmenting.current_start, iteration_count)
    /\ segmenting' = [segmenting EXCEPT !.pc = "returned"]
    /\ UNCHANGED <<detailing_vars, stirrups, lanes, document, served, loaders,
                   iteration_count, job, cutting>>

PipelineStocks == {"6m", "12m"}
LoopStocks == {"1m", "6m"}

\* either a call of compute_detailing, or one call of a segmenting loop with
\* the arguments the planners derive from a request
InitLoops ==
    /\ stirrups = None /\ lanes = None /\ document = None /\ served = <<>>
    /\ loaders = None /\ job = None /\ cutting = None /\ iteration_count = 0
    /\ beam_data = None
    /\ coordinates = None
    /\ continuous_bars = None
    /\ prohibited_zones = <<>>
    /\ top_bars = <<>>
    /\ bottom_bars = <<>>
    /\ joints = [top |-> <<>>, bottom |-> <<>>]
    /\ warnings = {}
    /\ payload = None
    /\ \/ /\ input \in LoopRequests(PipelineStocks)
          /\ pc = "preprocess"
          /\ segmenting = None
       \/ /\ input = None
          /\ pc = "idle"
          /\ segmenting \in {[pc |-> "loop", face |-> face,
                              context |-> RequestContext(request, face, 6, i),
                              current_start |-> 0, piece_index |-> 1,
                              segments |-> 0, attempts |-> 0,
                              last_end |-> 0] :
                                 request \in LoopRequests(LoopStocks),
                                 face \in BarFaces, i \in {0, 1}}
          /\ BottomBarIsSplit(SegmentingContext)

NextLoops == Next \/ Iterate \/ ReturnSegments

\* compute_detailing is at a step it has still to take
Running ==
    pc \in {"preprocess", "coordinates", "continuous", "zones", "top", "bottom",
            "coordinate", "finish_top", "finish_bottom", "validate"}

\* compute_detailing moves on to another step
Advance ==
    /\ Running
    /\ \E p \in {"coordinates", "continuous", "zones", "top", "bottom", "coordinate",
                  "finish_top", "finish_bottom", "validate", "done", "invalid"} :
           p # pc /\ pc' = p

\* the while loop enters its body
CountIteration ==
    /\ Looping
    /\ LoopContinues(SegmentingContext, segmenting.current_start, iteration_count)
    /\ iteration_count' = iteration_count + 1

\* compute_detailing and the segmenting loops wait for nothing: a step that
\* can be taken is taken.  Every step of compute_detailing moves pc and every
\* iteration counts iteration_count up, so the conditions are those of weak
\* fairness of NextLoops.
SpecLoops ==
    /\ InitLoops /\ [][NextLoops]_vars
    /\ WF_pc(Advance) /\ WF_iteration_count(CountIteration) /\ WF_vars(ReturnSegments)

\* the pieces of continuous bar number n of mark d on the face
PiecesOf(face, d, n) ==
    {k \in 1..Len(FaceBars(face)) :
        /\ FaceBars(face)[k].id[2] = d /\ FaceBars(face)[k].id[3] = "C"
        /\ FaceBars(face)[k].id[4] = n /\ FaceBars(face)[k].id[5] > 0}

LoopsBounded ==
    /\ segmenting # None =>
          /\ iteration_count <= 100
          /\ segmenting.segments <= 100
          /\ segmenting.attempts <= 20
    /\ \A face \in BarFaces, d \in Diameters, n \in 1..4 :
          Cardinality(PiecesOf(face, d, n)) <= 100

\* C28: the planner's loops terminate: segmenting one continuous bar takes
\* at most 100 iterations and yields at most 100 segments, one zone
\* adjustment makes at most 20 attempts, and compute_detailing always
\* reaches a final response.
C28_LoopsTerminate ==
    /\ []LoopsBounded
    /\ <>(\/ pc \in {"done", "invalid"}
          \/ segmenting # None /\ segmenting.pc = "returned")

\* a segmenting loop stopped by its limit: 100 iterations and 100 segments,
\* the last of them short of the bar's end
C28_Witness ==
    /\ segmenting # None
    /\ segmenting.pc = "returned"
    /\ iteration_count = 100
    /\ segmenting.segments = 100
    /\ segmenting.last_end < SegmentingContext.bar.end_m

-----------------------------------------------------------------------------
(* C29                                                                     *)
(* _optimize_cutting_stock on its own, against first-fit-decreasing        *)

MaxCutBars == 3
CutLengths == {200000, 250000, 350000, 600000, 1250000}
CutQuantities == {1, 2}
CutStocks == {600000, 1200000}

CutRequests ==
    UNION {[1..n -> [length_m : CutLengths, quantity : CutQuantities]] : n \in 0..MaxCutBars}

InitCutting ==
    /\ DetailingIdle
    /\ stirrups = None /\ lanes = None /\ document = None /\ served = <<>>
    /\ loaders = None /\ segmenting = None /\ iteration_count = 0 /\ job = None
    /\ cutting \in {[pc |-> "call", bars |-> bars, max_length |-> max_length, cuts |-> <<>>] :
                        bars \in CutRequests, max_length \in CutStocks}

OptimizeCutting ==
    /\ cutting # None
    /\ cutting.pc = "call"
    /\ cutting' = [cutting EXCEPT !.pc = "returned",
                                    !.cuts = OptimizeCuttingStock(cutting.bars, cutting.max_length)]
    /\ UNCHANGED <<detailing_vars, stirrups, lanes, document, served, loaders, segmenting,
                   iteration_count, job>>

SpecCutting == InitCutting /\ [][OptimizeCutting]_vars

\* the reference: the pieces in descending length, each in the earliest-opened
\* stock with enough remaining capacity, a new stock when there is none
RECURSIVE FirstFitting(_, _, _)
FirstFitting(stocks, piece, k) ==
    IF k > Len(stocks) THEN 0
    ELSE IF stocks[k].commercial_length - SumSeq(stocks[k].cut_lengths) >= piece THEN k
    ELSE FirstFitting(stocks, piece, k + 1)

Opened(piece, max_length) ==
    [commercial_length |-> Max2(piece, max_length), cut_lengths |-> <<piece>>]

Placed(stocks, piece, max_length, k) ==
    IF k = 0 THEN Append(stocks, Opened(piece, max_length))
    ELSE [stocks EXCEPT ![k].cut_lengths = Append(@, piece)]

RECURSIVE FirstFitDecreasing(_, _, _)
FirstFitDecreasing(pieces, max_length, stocks) ==
    IF pieces = <<>> THEN stocks
    ELSE FirstFitDecreasing(Tail(pieces), max_length,
                            Placed(stocks, Head(pieces), max_length,
                                   FirstFitting(stocks, Head(pieces), 1)))

ReferencePacking(call) ==
    FirstFitDecreasing(SortDesc(PieceLengths(call.bars), <<>>), call.max_length, <<>>)

Packing(cuts) ==
    [k \in 1..Len(cuts) |-> [commercial_length |-> cuts[k].commercial_length,
                             cut_lengths |-> cuts[k].cut_lengths]]

RECURSIVE AllCuts(_)
AllCuts(cuts) ==
    IF cuts = <<>> THEN <<>> ELSE cuts[1].cut_lengths \o AllCuts(Tail(cuts))

IsRegular(stock) == stock.commercial_length = cutting.max_length
IsOversize(stock) == stock.commercial_length > cutting.max_length

\* C29: a call of _optimize_cutting_stock returns the stocks of the
\* first-fit-decreasing reference (pieces in descending length, each in the
\* earliest-opened stock with enough remaining capacity): the stocks of
\* length Lmax are the reference's, in its order and with the cuts in its
\* order, and so are the stocks of the pieces longer than Lmax, which the
\* function lists after the others; every piece is in exactly one stock, the
\* cuts of a stock sum to at most its commercial length, and a piece longer
\* than Lmax is alone in a stock of its own length with waste 0 and
\* efficiency 100.
C29_PacksAsFirstFitDecreasing ==
    (cutting # None /\ cutting.pc = "returned") =>
        /\ SelectSeq(Packing(cutting.cuts), IsRegular)
               = SelectSeq(ReferencePacking(cutting), IsRegular)
        /\ SelectSeq(Packing(cutting.cuts), IsOversize)
               = SelectSeq(ReferencePacking(cutting), IsOversize)
        /\ Packing(cutting.cuts)
               = SelectSeq(Packing(cutting.cuts), IsRegular)
                     \o SelectSeq(Packing(cutting.cuts), IsOversize)
        /\ SortDesc(AllCuts(cutting.cuts), <<>>) = SortDesc(PieceLengths(cutting.bars), <<>>)
        /\ \A k \in 1..Len(cutting.cuts) :
               /\ SumSeq(cutting.cuts[k].cut_lengths) <= cutting.cuts[k].commercial_length
               /\ cutting.cuts[k].cut_lengths # <<>>
               /\ \A j \in 1..Len(cutting.cuts[k].cut_lengths) :
                      cutting.cuts[k].cut_lengths[j] > cutting.max_length =>
                          /\ cutting.cuts[k].cut_lengths = <<cutting.cuts[k].cut_lengths[j]>>
                          /\ cutting.cuts[k].commercial_length = cutting.cuts[k].cut_lengths[j]
                          /\ cutting.cuts[k].waste_m = 0
                          /\ cutting.cuts[k].efficiency = 10000

\* a call with a piece longer than Lmax, two stocks of length Lmax and a
\* later, shorter piece cut from an earlier stock
C29_Witness ==
    /\ cutting # None /\ cutting.pc = "returned"
    /\ \E k \in 1..Len(cutting.cuts) : IsOversize(cutting.cuts[k])
    /\ \E k, m \in 1..Len(cutting.cuts) :
           /\ k < m
           /\ IsRegular(cutting.cuts[k]) /\ IsRegular(cutting.cuts[m])
           /\ Len(cutting.cuts[k].cut_lengths) >= 2
           /\ cutting.cuts[k].cut_lengths[Len(cutting.cuts[k].cut_lengths)]
                  < cutting.cuts[m].cut_lengths[1]

-----------------------------------------------------------------------------
(* C30                                                                     *)
(* Export jobs: enqueue_drawing_export, create_export_job and               *)
(* process_export_job                                                      *)

MaxRuns == 2

\* the names the package app.models binds (models/__init__.py); any other
\* attribute of the package raises AttributeError
ModelsExports ==
    {"User", "Design", "DespieceViga", "HookLength", "DevelopmentLength", "LapSpliceLength"}

HasModel(name) == name \in ModelsExports

ExportFormats == {"dwg", "dxf", "pdf"}
ExportLocales == {"es-CO", "en-US"}
\* the design of the request: none for this user, one without a despiece,
\* one with a despiece
DesignStates == {"absent", "bare", "detailed"}

CoerceLocale(locale) == IF locale = "en-US" THEN "en-US" ELSE "es-CO"

\* the payload of a detailed design: one span between two supports
ExportPayload ==
    [spans |-> <<45>>, supports |-> <<30, 30>>, axis_markers |-> <<0, 1>>,
     detailing_results |-> [top_bars |-> 1, bottom_bars |-> 1]]

Raised(message) == [raised |-> TRUE, message |-> message, row |-> None, file_path |-> None]

\* create_export_job: builds models.DesignExport(..., status="queued") and
\* commits it
CreateExportJob(request) ==
    IF ~HasModel("DesignExport")
    THEN Raised("module 'app.models' has no attribute 'DesignExport'")
    ELSE [raised |-> FALSE, message |-> None, file_path |-> None,
          row |-> [status |-> "queued", message |-> None, file_path |-> None,
                   format |-> request.format, locale |-> CoerceLocale(request.locale)]]

\* generate_export_for_design: the payload, the document, then the file
GenerateExportForDesign(design, row) ==
    IF design = "bare" THEN Raised("no tiene un despiece de viga asociado")
    ELSE IF RenderedDocument(ExportPayload).raised
         THEN Raised("'RenderContext' object has no attribute")
    ELSE IF row.format \notin {"dwg", "dxf", "pdf", "svg"}
         THEN Raised("Formato no soportado")
    ELSE [raised |-> FALSE, message |-> None, row |-> None, file_path |-> row.format]

Processing(row) == [row EXCEPT !.status = "processing", !.message = None]
\* a column that is set holds a record, so that it compares with None
Completed(row, result) ==
    [row EXCEPT !.status = "completed", !.file_path = [path |-> result.file_path]]
Failed(row, message) == [row EXCEPT !.status = "failed", !.message = [text |-> message]]

InitExports ==
    /\ DetailingIdle
    /\ stirrups = None /\ lanes = None /\ document = None /\ served = <<>>
    /\ loaders = None /\ segmenting = None /\ iteration_count = 0 /\ cutting = None
    /\ job \in [pc : {"request"}, design : DesignStates, format : ExportFormats,
                locale : ExportLocales, include_preview : BOOLEAN,
                row : {None}, scheduled : {FALSE}, exc : {None}, runs : {0}]

others_unchanged ==
    UNCHANGED <<detailing_vars, stirrups, lanes, document, served, loaders, segmenting,
                iteration_count, cutting>>

\* POST /drawing/exports: 404 without the design; otherwise the job is
\* created and its processing is added to the background tasks; an exception
\* of create_export_job ends the request before anything is scheduled
EnqueueDrawingExport ==
    /\ job # None
    /\ job.pc = "request"
    /\ LET created == CreateExportJob(job)
       IN job' = IF job.design = "absent" THEN [job EXCEPT !.pc = "not_found"]
                 ELSE IF created.raised
                      THEN [job EXCEPT !.pc = "error", !.exc = created.message]
                 ELSE [job EXCEPT !.pc = "accepted", !.row = created.row,
                                  !.scheduled = TRUE]
    /\ others_unchanged

\* process_export_job up to its first commit: the query of the job, then
\* status = "processing" and message = None; the background task of an
\* accepted request, or a worker calling the function with a job id
QueryExportJob ==
    /\ job # None
    /\ job.pc \in {"accepted", "error", "not_found", "returned"}
    /\ job.runs < MaxRuns
    /\ job' = IF ~HasModel("DesignExport")
              THEN [job EXCEPT !.pc = "raised", !.runs = @ + 1, !.scheduled = FALSE,
                               !.exc = "module 'app.models' has no attribute 'DesignExport'"]
              ELSE IF job.row = None
                   THEN [job EXCEPT !.pc = "returned", !.runs = @ + 1, !.scheduled = FALSE]
              ELSE [job EXCEPT !.pc = "running", !.runs = @ + 1, !.scheduled = FALSE,
                               !.row = Processing(job.row)]
    /\ others_unchanged

\* the rest of process_export_job: the export and status = "completed", or
\* the except branch: rollback and, when the job was found, status =
\* "failed" with the message of the exception
FinishExportJob ==
    /\ job # None
    /\ job.pc \in {"raised", "running"}
    /\ LET result == GenerateExportForDesign(job.design, job.row)
       IN job' = IF job.pc = "raised" THEN [job EXCEPT !.pc = "returned"]
                 ELSE IF result.raised
                      THEN [job EXCEPT !.pc = "returned", !.exc = result.message,
                                       !.row = Failed(job.row, result.message)]
                 ELSE [job EXCEPT !.pc = "returned", !.row = Completed(job.row, result)]
    /\ others_unchanged

NextExports == EnqueueDrawingExport \/ QueryExportJob \/ FinishExportJob

\* a call of process_export_job runs to its end
SpecExports == InitExports /\ [][NextExports]_vars /\ WF_job(FinishExportJob)

JobCreated == job.pc = "request" /\ job.design # "absent" /\ job'.pc # "request"
RunStarts == job.pc \in {"accepted", "returned"} /\ job.row # None /\ job'.runs = job.runs + 1
RunEnds == job.pc \in {"raised", "running"} /\ job.row # None /\ job'.pc = "returned"

\* C30: the request for an existing design creates a job in status queued;
\* a run of process_export_job on an existing job first moves it to
\* processing and ends with the job completed, with its file_path, or
\* failed, with its message; a run that started also ends; a completed job
\* always has a file_path.
C30_JobLifecycle ==
    /\ [][JobCreated => job'.row # None /\ job'.row.status = "queued"]_job
    /\ [][RunStarts => job'.row.status = "processing"]_job
    /\ [][RunEnds => \/ job'.row.status = "completed" /\ job'.row.file_path # None
                     \/ job'.row.status = "failed" /\ job'.row.message # None]_job
    /\ [](job # None /\ job.row # None /\ job.row.status = "completed"
              => job.row.file_path # None)
    /\ (job # None /\ job.pc \in {"raised", "running"}) ~> (job # None /\ job.pc = "returned")

====
